---- MODULE Spec2Model ----
(***************************************************************************)
(* Directory tree generator (others/directory-tree): the ignore filter,   *)
(* the recursive text / Markdown / JSON traversals, the HTML wrapper and   *)
(* the generate_to_string / generate_to_file entry points.                 *)
(*                                                                         *)
(* A name (str) is a sequence of one-character strings, so that            *)
(* startswith / endswith / lower / comparison are computed, not assumed.   *)
(***************************************************************************)
EXTENDS Integers, Sequences, FiniteSets, TLC

VARIABLES
    world,            \* the filesystem: the directory that holds the root, a plain file, outputs
    config,           \* self.config (TreeConfig)
    output_format,    \* self.output_format
    ignore_patterns,  \* self.ignore_patterns (merged in __init__)
    stats,            \* self.stats (TreeStats)
    result,           \* outcome of the last generate_to_string / generate_to_file call
    listed,           \* paths handed to iterdir() during the last call, in call order
    written,          \* the files written by generate_to_file: output path and content
    calls,            \* number of render calls made on this instance
    history,          \* the render calls made on this instance, oldest first
    ignored,          \* outcome of the last direct should_ignore call
    formatted         \* the _format_size calls made: argument and returned text

vars == <<world, config, output_format, ignore_patterns, stats, result, listed, written,
          calls, history, ignored, formatted>>

(***************************************************************************)
(* Bounds of the model                                                      *)
(***************************************************************************)
MaxCalls == 1        \* render calls per generator instance
MaxReuse == 3        \* render calls on an instance that is used again and again
MaxFormatCalls == 2  \* _format_size calls that are compared with each other
MaxDepthCfg == 2     \* max_depth is None or 0..MaxDepthCfg

(***************************************************************************)
(* Strings                                                                  *)
(***************************************************************************)
\* printable ASCII, code points 32..126, in order (the double quote, the backslash
\* and the backtick, which no name of the model uses, are spelled out)
Ascii ==
    <<" ", "!", "DQUOTE", "#", "$", "%", "&", "'", "(", ")", "*", "+", ",", "-", ".", "/",
      "0", "1", "2", "3", "4", "5", "6", "7", "8", "9", ":", ";", "<", "=", ">", "?",
      "@", "A", "B", "C", "D", "E", "F", "G", "H", "I", "J", "K", "L", "M", "N", "O",
      "P", "Q", "R", "S", "T", "U", "V", "W", "X", "Y", "Z", "[", "BACKSLASH", "]", "^", "_",
      "BACKTICK", "a", "b", "c", "d", "e", "f", "g", "h", "i", "j", "k", "l", "m", "n", "o",
      "p", "q", "r", "s", "t", "u", "v", "w", "x", "y", "z", "{", "|", "}", "~">>

\* ord(c), for every character
OrdTable == [c \in {Ascii[i] : i \in 1..Len(Ascii)} |->
                31 + (CHOOSE i \in 1..Len(Ascii) : Ascii[i] = c)]

\* ord(c)
Ord(c) == OrdTable[c]

\* chr(n)
Chr(n) == Ascii[n - 31]

\* c.lower(), for every character: A-Z map to a-z
LowerTable == [c \in DOMAIN OrdTable |->
                  IF OrdTable[c] >= OrdTable["A"] /\ OrdTable[c] <= OrdTable["Z"]
                  THEN Chr(OrdTable[c] + 32) ELSE c]

\* c.lower() for one character
LowerChar(c) == LowerTable[c]

\* str.lower()
lower(s) == [i \in 1..Len(s) |-> LowerChar(s[i])]

\* s.startswith(p)
startswith(s, p) == Len(p) <= Len(s) /\ SubSeq(s, 1, Len(p)) = p

\* s.endswith(p)
endswith(s, p) == Len(p) <= Len(s) /\ SubSeq(s, Len(s) - Len(p) + 1, Len(s)) = p

\* c in s
contains(s, c) == \E i \in 1..Len(s) : s[i] = c

\* a < b on str (code point order, a proper prefix is smaller)
StrLess(a, b) ==
    LET n == IF Len(a) < Len(b) THEN Len(a) ELSE Len(b)
        diff == {i \in 1..n : a[i] # b[i]}
    IN  IF diff = {}
        THEN Len(a) < Len(b)
        ELSE LET i == CHOOSE j \in diff : \A k \in diff : j <= k
             IN  Ord(a[i]) < Ord(b[i])

(***************************************************************************)
(* IgnoreFilter                                                             *)
(***************************************************************************)
DEFAULT_IGNORE ==
    { <<"_","_","p","y","c","a","c","h","e","_","_">>,
      <<".","g","i","t">>,
      <<".","s","v","n">>,
      <<".","h","g">>,
      <<"n","o","d","e","_","m","o","d","u","l","e","s">>,
      <<".","i","d","e","a">>,
      <<".","v","s","c","o","d","e">>,
      <<".","D","S","_","S","t","o","r","e">>,
      <<"v","e","n","v">>,
      <<"e","n","v">>,
      <<".","p","y","t","e","s","t","_","c","a","c","h","e">>,
      <<".","m","y","p","y","_","c","a","c","h","e">>,
      <<"_","_","M","A","C","O","S","X">> }

\* a slip: the user's patterns replace the defaults instead of joining them
MergePatterns_replacing(user) == IF user = {} THEN DEFAULT_IGNORE ELSE user

\* __init__: self.ignore_patterns = self.DEFAULT_IGNORE | self.config.ignore_patterns
MergePatterns(user) == DEFAULT_IGNORE \cup user

\* a slip: the '*' is not cut off before the comparison
PatternHit_star_kept(pattern, entry) ==
    /\ contains(pattern, "*")
    /\ IF startswith(pattern, <<"*">>)
       THEN endswith(entry, pattern)
       ELSE /\ endswith(pattern, <<"*">>)
            /\ startswith(entry, pattern)

\* a slip: a '*' anywhere in the pattern stands for any run of characters
PatternHit_star_anywhere(pattern, entry) ==
    \E k \in 1..Len(pattern) :
        /\ pattern[k] = "*"
        /\ Len(entry) >= Len(pattern) - 1
        /\ startswith(entry, SubSeq(pattern, 1, k - 1))
        /\ endswith(entry, SubSeq(pattern, k + 1, Len(pattern)))

\* one iteration of the pattern loop of should_ignore: does this pattern return True
PatternHit(pattern, entry) ==
    /\ contains(pattern, "*")
    /\ IF startswith(pattern, <<"*">>)
       THEN endswith(entry, SubSeq(pattern, 2, Len(pattern)))
       ELSE /\ endswith(pattern, <<"*">>)
            /\ startswith(entry, SubSeq(pattern, 1, Len(pattern) - 1))

\* a slip: hidden names are dropped whatever show_hidden says
should_ignore_hidden_always(entry) ==
    IF startswith(entry, <<".">>) THEN TRUE
    ELSE IF entry \in ignore_patterns THEN TRUE
    ELSE \E pattern \in ignore_patterns : PatternHit(pattern, entry)

\* should_ignore(self, entry)
should_ignore(entry) ==
    IF ~config.show_hidden /\ startswith(entry, <<".">>) THEN TRUE
    ELSE IF entry \in ignore_patterns THEN TRUE
    ELSE \E pattern \in ignore_patterns : PatternHit(pattern, entry)

(***************************************************************************)
(* Filesystem: a node is what Path.name, is_dir(), iterdir() and stat()     *)
(* answer for one path.  entries is the order in which the operating       *)
(* system enumerates a directory.                                           *)
(***************************************************************************)
\* TreeConfig.max_depth: Optional[int] = None
None == -1

File(name, size, stat_ok) ==
    [name |-> name, is_dir |-> FALSE, list_ok |-> FALSE, stat_ok |-> stat_ok,
     size |-> size, entries |-> <<>>]

Dir(name, list_ok, entries) ==
    [name |-> name, is_dir |-> TRUE, list_ok |-> list_ok, stat_ok |-> TRUE,
     size |-> 0, entries |-> entries]

\* the values of a sequence
Range(s) == {s[i] : i \in 1..Len(s)}

\* directory.iterdir() of a directory that can be listed
iterdir(directory) == directory.entries

\* a slip: the key compares the names as they are, without lower()
KeyLess_case_sensitive(a, b) ==
    \/ a.is_dir /\ ~b.is_dir
    \/ a.is_dir = b.is_dir /\ StrLess(a.name, b.name)

\* the sort key (not p.is_dir(), p.name.lower()): is key(a) < key(b)
KeyLess(a, b) ==
    \/ a.is_dir /\ ~b.is_dir
    \/ a.is_dir = b.is_dir /\ StrLess(lower(a.name), lower(b.name))

\* sorted() is stable: x goes before the first element whose key is greater
InsertSorted(s, x) ==
    LET later == {i \in 1..Len(s) : KeyLess(x, s[i])}
        at == IF later = {} THEN Len(s) + 1
              ELSE CHOOSE i \in later : \A j \in later : i <= j
    IN  SubSeq(s, 1, at - 1) \o <<x>> \o SubSeq(s, at, Len(s))

RECURSIVE sorted(_)
\* sorted(directory.iterdir(), key=lambda p: (not p.is_dir(), p.name.lower()))
sorted(s) ==
    IF s = <<>> THEN <<>>
    ELSE InsertSorted(sorted(SubSeq(s, 1, Len(s) - 1)), s[Len(s)])

\* a slip: the filter forgets should_ignore
keeps_without_ignore(e) == ~config.dirs_only \/ e.is_dir

\* a slip: dirs_only is not looked at
keeps_files_too(e) == ~should_ignore(e.name)

\* the filter condition of the list comprehension
keeps(e) == ~should_ignore(e.name) /\ (~config.dirs_only \/ e.is_dir)

\* a slip: only files are filtered, every directory is kept
filter_entries_keeping_directories(s) == SelectSeq(s, LAMBDA e : e.is_dir \/ keeps(e))

\* [e for e in entries if not self.should_ignore(e.name) and (not dirs_only or e.is_dir())]
filter_entries(s) == SelectSeq(s, keeps)

(***************************************************************************)
(* _format_size.  A byte count is the sequence of its base-1024 digits,     *)
(* most significant first; the float the loop divides is a whole part and   *)
(* a fraction part of such digits.  Dividing a double by 1024.0 only        *)
(* changes its exponent, so the value is exact for every count that a       *)
(* double holds exactly (every count below 2^53).                           *)
(***************************************************************************)
RECURSIVE Digits(_)
\* the base-1024 digits of an int
Digits(n) == IF n < 1024 THEN <<n>> ELSE Append(Digits(n \div 1024), n % 1024)

\* the int a digit sequence stands for
RECURSIVE Value(_)
Value(d) == IF d = <<>> THEN 0 ELSE 1024 * Value(SubSeq(d, 1, Len(d) - 1)) + d[Len(d)]

\* the units the loop goes through
UNITS == <<"B", "KB", "MB", "GB", "TB">>

\* size < 1024.0
Below1024(size) == Len(size.whole) <= 1

\* size /= 1024.0
DividedBy1024(size) ==
    [whole |-> IF Len(size.whole) <= 1 THEN <<0>>
               ELSE SubSeq(size.whole, 1, Len(size.whole) - 1),
     frac |-> <<size.whole[Len(size.whole)]>> \o size.frac]

\* ten times a fraction: the digit that moves before the point, and the new fraction
TimesTen(frac) ==
    LET k == Len(frac)
        carry[i \in 1..(k + 1)] ==
            IF i = k + 1 THEN 0 ELSE (10 * frac[i] + carry[i + 1]) \div 1024
    IN  [tenths |-> carry[1],
         rest |-> [i \in 1..k |-> (10 * frac[i] + carry[i + 1]) % 1024]]

\* a fraction compared with one half: "above", "half" or "below"
AgainstHalf(frac) ==
    IF frac = <<>> \/ frac[1] < 512 THEN "below"
    ELSE IF frac[1] > 512 \/ \E i \in 2..Len(frac) : frac[i] # 0 THEN "above"
    ELSE "half"

\* a slip: the digits after the first fractional one are cut off, not rounded
OneDecimal_truncating(size, t) ==
    [whole |-> Value(size.whole), tenths |-> t.tenths]

\* f"{size:.1f}": the value rounded to one fractional digit, a tie to the even digit;
\* t is TimesTen(size.frac)
OneDecimal(size, t) ==
    LET up == \/ AgainstHalf(t.rest) = "above"
              \/ AgainstHalf(t.rest) = "half" /\ t.tenths % 2 = 1
        tenths == IF up THEN t.tenths + 1 ELSE t.tenths
    IN  IF tenths = 10 THEN [whole |-> Value(size.whole) + 1, tenths |-> 0]
        ELSE [whole |-> Value(size.whole), tenths |-> tenths]

\* f"({size:.1f}{unit})"
SizeText(number, unit) == [whole |-> number.whole, tenths |-> number.tenths, unit |-> unit]

RECURSIVE format_size_from(_, _)
\* the loop of _format_size from the i-th unit on
format_size_from(size, i) ==
    IF i > Len(UNITS) THEN SizeText(OneDecimal(size, TimesTen(size.frac)), "PB")
    ELSE IF Below1024(size) THEN SizeText(OneDecimal(size, TimesTen(size.frac)), UNITS[i])
    ELSE format_size_from(DividedBy1024(size), i + 1)

\* _format_size(self, size), size given by its digits
format_size(digits) == format_size_from([whole |-> digits, frac |-> <<>>], 1)

\* a slip: a failed stat() is not caught apart, the parts are appended anyway
get_entry_info_unguarded(entry) ==
    (IF config.show_size /\ ~entry.is_dir
     THEN <<[part |-> "size", value |-> format_size(Digits(entry.size))]>> ELSE <<>>)
    \o
    (IF config.show_permissions
     THEN <<[part |-> "perms", value |-> "mode"]>> ELSE <<>>)

\* get_entry_info: the info parts, in order (their join is the suffix of the line)
get_entry_info(entry) ==
    (IF config.show_size /\ ~entry.is_dir /\ entry.stat_ok
     THEN <<[part |-> "size", value |-> format_size(Digits(entry.size))]>> ELSE <<>>)
    \o
    (IF config.show_permissions /\ entry.stat_ok
     THEN <<[part |-> "perms", value |-> "mode"]>> ELSE <<>>)

(***************************************************************************)
(* Text renderer.  A traversal threads the statistics and the log of        *)
(* listed paths through the recursion and returns them with its lines.     *)
(***************************************************************************)
\* The drawing constants, character by character as the source file holds them: the
\* box-drawing glyphs are stored mis-decoded, each as three characters (U+2502 as
\* U+00E2 U+201D U+201A, and so on), so PIPE_SPACE is six characters long and TEE
\* and ELBOW nine.  A prefix is kept as the sequence of its segments.
TEE == <<"U+00E2", "U+201D", "U+0153", "U+00E2", "U+201D", "U+20AC", "U+00E2", "U+201D", "U+20AC">>
ELBOW == <<"U+00E2", "U+201D", "U+201D", "U+00E2", "U+201D", "U+20AC", "U+00E2", "U+201D", "U+20AC">>
SPACE == <<" ", " ", " ", " ">>
PIPE_SPACE == <<"U+00E2", "U+201D", "U+201A", " ", " ", " ">>

RECURSIVE generate_tree_text(_, _, _, _, _, _)
RECURSIVE text_entries(_, _, _, _, _, _)

\* a slip: the entry is counted but its line is not appended
text_extend_line_dropped(entries, i, path, prefix, depth, acc, line, sub) ==
    text_entries(entries, i + 1, path, prefix, depth,
                 [lines |-> acc.lines \o sub.lines,
                  stats |-> sub.stats, listed |-> sub.listed])

\* the end of one iteration: the entry's line, then the lines of its subtree (sub)
text_extend(entries, i, path, prefix, depth, acc, line, sub) ==
    text_entries(entries, i + 1, path, prefix, depth,
                 [lines |-> acc.lines \o <<line>> \o sub.lines,
                  stats |-> sub.stats, listed |-> sub.listed])

\* one iteration of the loop for entry, whose statistics update gave st1
text_entry(entries, i, path, prefix, depth, acc, entry, is_last, st1) ==
    text_extend(entries, i, path, prefix, depth, acc,
                [prefix |-> prefix,
                 connector |-> IF is_last THEN ELBOW ELSE TEE,
                 name |-> entry.name,
                 info |-> get_entry_info(entry)],
                IF entry.is_dir
                THEN generate_tree_text(entry, Append(path, entry.name),
                                        Append(prefix, IF is_last THEN SPACE ELSE PIPE_SPACE),
                                        depth + 1, st1, acc.listed)
                ELSE [lines |-> <<>>, stats |-> st1, listed |-> acc.listed])

\* the 'for i, entry in enumerate(entries)' loop of generate_tree_text, from index i
text_entries(entries, i, path, prefix, depth, acc) ==
    IF i > Len(entries) THEN acc
    ELSE text_entry(entries, i, path, prefix, depth, acc, entries[i], i = Len(entries),
                    IF entries[i].is_dir
                    THEN [acc.stats EXCEPT !.total_dirs = @ + 1]
                    ELSE [acc.stats EXCEPT !.total_files = @ + 1])

\* generate_tree_text(self, directory, prefix, depth)
generate_tree_text(directory, path, prefix, depth, st, ls) ==
    IF config.max_depth # None /\ depth > config.max_depth
    THEN [lines |-> <<>>, stats |-> st, listed |-> ls]
    ELSE IF ~directory.list_ok
    THEN [lines |-> <<>>, stats |-> [st EXCEPT !.errors = @ + 1],
          listed |-> Append(ls, path)]
    ELSE text_entries(filter_entries(sorted(iterdir(directory))), 1, path, prefix, depth,
                      [lines |-> <<>>, stats |-> st, listed |-> Append(ls, path)])

(***************************************************************************)
(* Markdown renderer                                                        *)
(***************************************************************************)
RECURSIVE generate_tree_markdown(_, _, _, _, _)
RECURSIVE markdown_entries(_, _, _, _, _)

\* a slip: the lines of the subtree are put before the line of their directory
markdown_extend_subtree_first(entries, i, path, depth, acc, line, sub) ==
    markdown_entries(entries, i + 1, path, depth,
                     [lines |-> acc.lines \o sub.lines \o <<line>>,
                      stats |-> sub.stats, listed |-> sub.listed])

\* the end of one iteration: the entry's line, then the lines of its subtree (sub)
markdown_extend(entries, i, path, depth, acc, line, sub) ==
    markdown_entries(entries, i + 1, path, depth,
                     [lines |-> acc.lines \o <<line>> \o sub.lines,
                      stats |-> sub.stats, listed |-> sub.listed])

\* the 'for entry in entries' loop of generate_tree_markdown, from index i;
\* the indent "  " * depth is kept as its number of spaces
markdown_entries(entries, i, path, depth, acc) ==
    IF i > Len(entries) THEN acc
    ELSE IF entries[i].is_dir
    THEN markdown_extend(entries, i, path, depth, acc,
                         [indent |-> 2 * depth, bold_dir |-> TRUE,
                          name |-> entries[i].name, info |-> <<>>],
                         generate_tree_markdown(entries[i], Append(path, entries[i].name),
                                                depth + 1,
                                                [acc.stats EXCEPT !.total_dirs = @ + 1],
                                                acc.listed))
    ELSE markdown_extend(entries, i, path, depth, acc,
                         [indent |-> 2 * depth, bold_dir |-> FALSE,
                          name |-> entries[i].name, info |-> get_entry_info(entries[i])],
                         [lines |-> <<>>,
                          stats |-> [acc.stats EXCEPT !.total_files = @ + 1],
                          listed |-> acc.listed])

\* generate_tree_markdown(self, directory, depth)
generate_tree_markdown(directory, path, depth, st, ls) ==
    IF config.max_depth # None /\ depth > config.max_depth
    THEN [lines |-> <<>>, stats |-> st, listed |-> ls]
    ELSE IF ~directory.list_ok
    THEN [lines |-> <<>>, stats |-> [st EXCEPT !.errors = @ + 1],
          listed |-> Append(ls, path)]
    ELSE markdown_entries(filter_entries(sorted(iterdir(directory))), 1, path, depth,
                          [lines |-> <<>>, stats |-> st, listed |-> Append(ls, path)])

(***************************************************************************)
(* JSON renderer.  A dict is a record that lists its keys; the fields of   *)
(* absent keys hold fillers (0, <<>>, NoError) and mean nothing.            *)
(***************************************************************************)
NoError == [exception |-> "none", filename |-> <<>>]

\* {}
EmptyDict ==
    [keys |-> {}, name |-> <<>>, type |-> "none", children |-> <<>>,
     size |-> 0, error |-> NoError]

\* {"name": ..., "type": "directory", "children": [...]}
DirDict(name, children) ==
    [keys |-> {"name", "type", "children"}, name |-> name, type |-> "directory",
     children |-> children, size |-> 0, error |-> NoError]

\* {"name": ..., "type": "file"} with "size" when show_size is set and stat() succeeds
FileDict(entry) ==
    [keys |-> {"name", "type"}
              \cup (IF config.show_size /\ entry.stat_ok THEN {"size"} ELSE {}),
     name |-> entry.name, type |-> "file", children |-> <<>>,
     size |-> IF config.show_size /\ entry.stat_ok THEN entry.size ELSE 0,
     error |-> NoError]

\* str(e) of the PermissionError raised by iterdir(): it names the path
ListingError(path) == [exception |-> "PermissionError", filename |-> path]

RECURSIVE generate_tree_json(_, _, _, _, _)
RECURSIVE json_entries(_, _, _, _, _)

\* the end of one iteration: tree["children"].append(...) of what the entry gave (sub)
json_extend(entries, i, path, depth, acc, sub) ==
    json_entries(entries, i + 1, path, depth,
                 [children |-> Append(acc.children, sub.tree),
                  stats |-> sub.stats, listed |-> sub.listed])

\* the 'for entry in entries' loop of generate_tree_json, from index i
json_entries(entries, i, path, depth, acc) ==
    IF i > Len(entries) THEN acc
    ELSE IF entries[i].is_dir
    THEN json_extend(entries, i, path, depth, acc,
                     generate_tree_json(entries[i], Append(path, entries[i].name),
                                        depth + 1,
                                        [acc.stats EXCEPT !.total_dirs = @ + 1],
                                        acc.listed))
    ELSE json_extend(entries, i, path, depth, acc,
                     [tree |-> FileDict(entries[i]),
                      stats |-> [acc.stats EXCEPT !.total_files = @ + 1],
                      listed |-> acc.listed])

\* the tree a listing that succeeded returns: r is what the loop gave
json_tree(directory, r) ==
    [tree |-> DirDict(directory.name, r.children), stats |-> r.stats, listed |-> r.listed]

\* a slip: a failed listing is recorded in the node but not counted in the statistics
generate_tree_json_error_uncounted(directory, path, depth, st, ls) ==
    IF config.max_depth # None /\ depth > config.max_depth
    THEN [tree |-> EmptyDict, stats |-> st, listed |-> ls]
    ELSE IF ~directory.list_ok
    THEN [tree |-> [DirDict(directory.name, <<>>) EXCEPT
                       !.keys = @ \cup {"error"}, !.error = ListingError(path)],
          stats |-> st,
          listed |-> Append(ls, path)]
    ELSE json_tree(directory,
                   json_entries(filter_entries(sorted(iterdir(directory))), 1, path, depth,
                                [children |-> <<>>, stats |-> st,
                                 listed |-> Append(ls, path)]))

\* generate_tree_json(self, directory, depth)
generate_tree_json(directory, path, depth, st, ls) ==
    IF config.max_depth # None /\ depth > config.max_depth
    THEN [tree |-> EmptyDict, stats |-> st, listed |-> ls]
    ELSE IF ~directory.list_ok
    THEN [tree |-> [DirDict(directory.name, <<>>) EXCEPT
                       !.keys = @ \cup {"error"}, !.error = ListingError(path)],
          stats |-> [st EXCEPT !.errors = @ + 1],
          listed |-> Append(ls, path)]
    ELSE json_tree(directory,
                   json_entries(filter_entries(sorted(iterdir(directory))), 1, path, depth,
                                [children |-> <<>>, stats |-> st,
                                 listed |-> Append(ls, path)]))

(***************************************************************************)
(* json.dumps(tree_data, indent=2) and str.replace: a text is a sequence of *)
(* characters ("NL" is the newline, "DQUOTE" the double quote, "BACKSLASH"  *)
(* the backslash)                                                           *)
(***************************************************************************)
RECURSIVE Join(_, _)
\* sep.join(parts)
Join(parts, sep) ==
    IF parts = <<>> THEN <<>>
    ELSE IF Len(parts) = 1 THEN parts[1]
    ELSE LET half == Len(parts) \div 2
         IN  Join(SubSeq(parts, 1, half), sep) \o sep
             \o Join(SubSeq(parts, half + 1, Len(parts)), sep)

\* the characters of a string between the quotes, as json.dumps writes them
Escaped(str) ==
    Join([i \in 1..Len(str) |->
             IF str[i] \in {"DQUOTE", "BACKSLASH"} THEN <<"BACKSLASH", str[i]>>
             ELSE <<str[i]>>],
         <<>>)

JsonString(str) == <<"DQUOTE">> \o Escaped(str) \o <<"DQUOTE">>

RECURSIVE Decimal(_)
\* a non-negative int in decimal
Decimal(n) ==
    IF n < 10 THEN <<Chr(48 + n)>> ELSE Append(Decimal(n \div 10), Chr(48 + (n % 10)))

Indent(level) == [i \in 1..(2 * level) |-> " "]

\* one "key": value line of a dict at the given level
Item(key, value, level) == Indent(level + 1) \o JsonString(key) \o <<":", " ">> \o value

\* a dict or a list at the given level, from its lines
Bracketed(open, lines, close, level) ==
    IF lines = <<>> THEN <<open, close>>
    ELSE <<open, "NL">> \o Join(lines, <<",", "NL">>) \o <<"NL">> \o Indent(level)
         \o <<close>>

\* str(e) of the exception of iterdir(): errno, message and the quoted path
ErrorText(error) ==
    <<"[", "E", "r", "r", "n", "o", " ", "1", "3", "]", " ", "P", "e", "r", "m", "i", "s", "s", "i", "o", "n", " ", "d", "e", "n", "i", "e", "d", ":", " ", "'">>
    \o Join(error.filename, <<"/">>) \o <<"'">>

\* the value of the 'stats' key: {'dirs': ..., 'files': ..., 'root': ...}
StatsText(stats_field, level) ==
    Bracketed("{", << Item(<<"d", "i", "r", "s">>, Decimal(stats_field.dirs), level),
                      Item(<<"f", "i", "l", "e", "s">>, Decimal(stats_field.files), level),
                      Item(<<"r", "o", "o", "t">>, JsonString(stats_field.root), level) >>,
              "}", level)

\* no 'stats' key
NoStats == [keys |-> {}, dirs |-> 0, files |-> 0, root |-> <<>>]

RECURSIVE json_dumps(_, _, _)
\* json.dumps(node, indent=2) of a node that stands at the given level; the keys are
\* written in the order in which the code inserted them
json_dumps(node, stats_field, level) ==
    Bracketed("{",
        (IF "name" \in node.keys
         THEN <<Item(<<"n", "a", "m", "e">>, JsonString(node.name), level)>> ELSE <<>>)
        \o (IF "type" \in node.keys
            THEN <<Item(<<"t", "y", "p", "e">>,
                        JsonString(IF node.type = "file" THEN <<"f", "i", "l", "e">>
                                   ELSE <<"d", "i", "r", "e", "c", "t", "o", "r", "y">>), level)>>
            ELSE <<>>)
        \o (IF "children" \in node.keys
            THEN <<Item(<<"c", "h", "i", "l", "d", "r", "e", "n">>,
                        Bracketed("[",
                                  [i \in 1..Len(node.children) |->
                                      Indent(level + 2)
                                      \o json_dumps(node.children[i], NoStats, level + 2)],
                                  "]", level + 1),
                        level)>>
            ELSE <<>>)
        \o (IF "size" \in node.keys
            THEN <<Item(<<"s", "i", "z", "e">>, Decimal(node.size), level)>> ELSE <<>>)
        \o (IF "error" \in node.keys
            THEN <<Item(<<"e", "r", "r", "o", "r">>, JsonString(ErrorText(node.error)), level)>>
            ELSE <<>>)
        \o (IF "stats" \in node.keys
            THEN <<Item(<<"s", "t", "a", "t", "s">>, StatsText(stats_field, level + 1), level)>>
            ELSE <<>>),
        "}", level)

\* the positions at which old occurs in text
Occurrences(text, old) ==
    {i \in 1..(Len(text) - Len(old) + 1) : SubSeq(text, i, i + Len(old) - 1) = old}

RECURSIVE replace_from(_, _, _, _, _)
\* text[at..] with the occurrences of old (found at the positions occ) replaced from
\* left to right, none overlapping the one before
replace_from(text, at, occ, old, new) ==
    IF \A i \in occ : i < at THEN SubSeq(text, at, Len(text))
    ELSE LET i == CHOOSE j \in occ : j >= at /\ \A k \in occ : k >= at => j <= k
         IN  SubSeq(text, at, i - 1) \o new
             \o replace_from(text, i + Len(old), occ, old, new)

\* text.replace(old, new)
replace(text, old, new) == replace_from(text, 1, Occurrences(text, old), old, new)

\* '</script>' and '<\\/script>' of generate_tree_html
CLOSE_SCRIPT == <<"<", "/", "s", "c", "r", "i", "p", "t", ">">>
ESCAPED_CLOSE_SCRIPT == <<"<", "BACKSLASH", "/", "s", "c", "r", "i", "p", "t", ">">>

(***************************************************************************)
(* Documents.  A text or Markdown document is its lines (the string split  *)
(* at newlines): the heading lines, then the entry lines.  A JSON document  *)
(* is the tree that json.dumps serializes; an HTML document is the static   *)
(* page with its title and the embedded tree_data.                          *)
(***************************************************************************)
NoDoc ==
    [format |-> "none", heading |-> <<>>, lines |-> <<>>, tree |-> EmptyDict,
     title |-> <<>>, stats |-> NoStats, script |-> <<>>]

\* one heading line: mark is the literal text before the root's name
HeadingLine(mark, text) == [mark |-> mark, text |-> text]
BlankLine == HeadingLine("", <<>>)

JsonDoc(tree) ==
    [format |-> "json", heading |-> <<>>, lines |-> <<>>, tree |-> tree,
     title |-> <<>>, stats |-> NoStats, script |-> <<>>]

\* the page: its title, the tree_data it embeds, and the text of the embedded data
HtmlDoc(directory, tree_data, stats_field, script) ==
    [format |-> "html", heading |-> <<>>, lines |-> <<>>, tree |-> tree_data,
     title |-> directory.name, stats |-> stats_field, script |-> script]

\* a slip: the serialized data is embedded as it is
generate_tree_html_unescaped(directory, tree_data, stats_field) ==
    HtmlDoc(directory, [tree_data EXCEPT !.keys = @ \cup {"stats"}], stats_field,
            json_dumps([tree_data EXCEPT !.keys = @ \cup {"stats"}], stats_field, 0))

\* generate_tree_html(self, directory, tree_data): the page around the embedded data;
\* tree_data is the JSON tree with the 'stats' key that generate_to_file merges in
generate_tree_html(directory, tree_data, stats_field) ==
    HtmlDoc(directory, [tree_data EXCEPT !.keys = @ \cup {"stats"}], stats_field,
            replace(json_dumps([tree_data EXCEPT !.keys = @ \cup {"stats"}], stats_field, 0),
                    CLOSE_SCRIPT, ESCAPED_CLOSE_SCRIPT))

(***************************************************************************)
(* Paths                                                                    *)
(***************************************************************************)
\* get_extension_for_format
get_extension_for_format(format) ==
    CASE format = "text" -> <<".", "t", "x", "t">>
      [] format = "markdown" -> <<".", "m", "d">>
      [] format = "html" -> <<".", "h", "t", "m", "l">>
      [] format = "json" -> <<".", "j", "s", "o", "n">>
      [] OTHER -> <<".", "t", "x", "t">>

\* PurePath.suffix of a final path component
suffix(name) ==
    LET dots == {i \in 1..Len(name) : name[i] = "."}
        j == IF dots = {} THEN 0 ELSE CHOOSE i \in dots : \A k \in dots : k <= i
    IN  IF 1 < j /\ j < Len(name) THEN SubSeq(name, j, Len(name)) ELSE <<>>

\* PurePath.with_suffix on the final path component
with_suffix(name, ext) == SubSeq(name, 1, Len(name) - Len(suffix(name))) \o ext

\* a slip: the canonical extension is always appended, a wrong one is not replaced
normalise_appending(output_path, format) ==
    LET correct_extension == get_extension_for_format(format)
    IN  IF suffix(output_path.name) = <<>> \/ suffix(output_path.name) # correct_extension
        THEN [output_path EXCEPT !.name = @ \o correct_extension]
        ELSE output_path

\* the extension handling of generate_to_file
normalise(output_path, format) ==
    LET correct_extension == get_extension_for_format(format)
    IN  IF suffix(output_path.name) = <<>> \/ suffix(output_path.name) # correct_extension
        THEN [output_path EXCEPT !.name = with_suffix(@, correct_extension)]
        ELSE output_path

\* Path(directory): the entry of the working directory with that name, if any
Lookup(w, directory) == {e \in Range(w.entries) : e.name = directory}
exists(w, directory) == Lookup(w, directory) # {}
PathOf(w, directory) == CHOOSE e \in Lookup(w, directory) : TRUE

\* open(path, 'w') in a directory: create the file, or truncate it
OpenIn(d, name) ==
    IF \E i \in 1..Len(d.entries) : d.entries[i].name = name
    THEN [d EXCEPT !.entries = [i \in 1..Len(d.entries) |->
                                  IF d.entries[i].name = name
                                  THEN [d.entries[i] EXCEPT !.size = 0]
                                  ELSE d.entries[i] ]]
    ELSE [d EXCEPT !.entries = Append(@, File(name, 0, TRUE))]

\* the file after f.write(...) and close: it is not empty (its length is not modelled)
WriteIn(d, name) ==
    [d EXCEPT !.entries = [i \in 1..Len(d.entries) |->
                             IF d.entries[i].name = name
                             THEN [d.entries[i] EXCEPT !.size = 1]
                             ELSE d.entries[i] ]]

\* open (mode "w") or write-and-close (mode "close") a file of a directory
ChangeIn(d, name, mode) == IF mode = "w" THEN OpenIn(d, name) ELSE WriteIn(d, name)

\* apply that to the directory an output path lies in: the rendered root
\* (parent = "root") or the working directory (parent = "cwd")
InParent(w, directory, output_path, mode) ==
    IF output_path.parent = "cwd" THEN ChangeIn(w, output_path.name, mode)
    ELSE [w EXCEPT !.entries = [i \in 1..Len(w.entries) |->
                                  IF w.entries[i].name = directory
                                  THEN ChangeIn(w.entries[i], output_path.name, mode)
                                  ELSE w.entries[i] ]]

(***************************************************************************)
(* Entry points.  Each returns the outcome of the whole call: the exception *)
(* raised (or "none"), the document produced, the statistics, the paths     *)
(* listed, the filesystem afterwards, and the directory as it was when the  *)
(* traversal read it.                                                       *)
(***************************************************************************)
\* TreeStats(): every counter is zero
TreeStats == [total_dirs |-> 0, total_files |-> 0, skipped |-> 0, errors |-> 0]

NoPath == [parent |-> "none", name |-> <<>>]

Raise(exception, w, st) ==
    [exc |-> exception, doc |-> NoDoc, stats |-> st, listed |-> <<>>, world |-> w,
     out |-> NoPath, seen |-> Dir(<<>>, FALSE, <<>>)]

\* a call that returns: t is what the traversal gave
ReturnLines(format, heading, t, w, out, seen) ==
    [exc |-> "none",
     doc |-> [format |-> format, heading |-> heading, lines |-> t.lines,
              tree |-> EmptyDict, title |-> <<>>, stats |-> NoStats, script |-> <<>>],
     stats |-> t.stats, listed |-> t.listed, world |-> w, out |-> out, seen |-> seen]

ReturnJson(t, w, out, seen) ==
    [exc |-> "none", doc |-> JsonDoc(t.tree),
     stats |-> t.stats, listed |-> t.listed, world |-> w, out |-> out, seen |-> seen]

\* the HTML branch of generate_to_file: tree_data['stats'] = {...}, then the page
ReturnHtml(dir_path, t, w, out) ==
    [exc |-> "none",
     doc |-> generate_tree_html(dir_path, t.tree,
                                [keys |-> {"dirs", "files", "root"},
                                 dirs |-> t.stats.total_dirs,
                                 files |-> t.stats.total_files,
                                 root |-> dir_path.name]),
     stats |-> t.stats, listed |-> t.listed, world |-> w, out |-> out, seen |-> dir_path]

\* the validated part of generate_to_string
to_string_of(w, directory, dir_path, st) ==
    CASE output_format = "text" ->
           \* '\n'.join([dir_path.name] + lines)
           ReturnLines("text", <<HeadingLine("", dir_path.name)>>,
                       generate_tree_text(dir_path, <<directory>>, <<>>, 0, st, <<>>),
                       w, NoPath, dir_path)
      [] output_format = "markdown" ->
           \* '\n'.join([f"# {dir_path.name}", ""] + lines)
           ReturnLines("markdown", <<HeadingLine("# ", dir_path.name), BlankLine>>,
                       generate_tree_markdown(dir_path, <<directory>>, 0, st, <<>>),
                       w, NoPath, dir_path)
      [] output_format = "html" ->
           \* self.generate_tree_html(dir_path): tree_data is a required parameter
           \* without a default, so the call raises
           Raise("TypeError", w, st)
      [] output_format = "json" ->
           ReturnJson(generate_tree_json(dir_path, <<directory>>, 0, st, <<>>),
                      w, NoPath, dir_path)

\* a slip: every render starts from counters set back to zero
generate_to_string_resetting(w, directory, st) ==
    IF ~exists(w, directory) THEN Raise("FileNotFoundError", w, st)
    ELSE IF ~PathOf(w, directory).is_dir THEN Raise("NotADirectoryError", w, st)
    ELSE to_string_of(w, directory, PathOf(w, directory), TreeStats)

\* generate_to_string(self, directory)
generate_to_string(w, directory, st) ==
    IF ~exists(w, directory) THEN Raise("FileNotFoundError", w, st)
    ELSE IF ~PathOf(w, directory).is_dir THEN Raise("NotADirectoryError", w, st)
    ELSE to_string_of(w, directory, PathOf(w, directory), st)

\* the text a file holds when the heading is written with its newline(s) and the
\* joined lines after it: with no lines the text ends in the heading's newline
FileHeading(heading, t) == heading \o (IF t.lines = <<>> THEN <<BlankLine>> ELSE <<>>)

ReturnFileLines(format, heading, t, w, out, seen) ==
    ReturnLines(format, FileHeading(heading, t), t, w, out, seen)

\* the validated part of generate_to_file: out is the normalised path, opened the
\* filesystem once the file is open, closed the filesystem once it is written, and
\* live the directory as a traversal finds it while the file is open
to_file_of(w, directory, dir_path, out, opened, closed, live, st) ==
    CASE output_format = "html" ->
           \* the tree is generated first, the file is opened afterwards
           ReturnHtml(dir_path,
                      generate_tree_json(dir_path, <<directory>>, 0, st, <<>>),
                      closed, out)
      [] output_format = "json" ->
           ReturnJson(generate_tree_json(live, <<directory>>, 0, st, <<>>),
                      closed, out, live)
      [] output_format = "text" ->
           ReturnFileLines("text", <<HeadingLine("", dir_path.name)>>,
                           generate_tree_text(live, <<directory>>, <<>>, 0, st, <<>>),
                           closed, out, live)
      [] output_format = "markdown" ->
           ReturnFileLines("markdown", <<HeadingLine("# ", dir_path.name), BlankLine>>,
                           generate_tree_markdown(live, <<directory>>, 0, st, <<>>),
                           closed, out, live)

\* the part of generate_to_file after the extension handling
to_file_at(w, directory, out, opened, st) ==
    to_file_of(w, directory, PathOf(w, directory), out, opened,
               InParent(opened, directory, out, "close"), PathOf(opened, directory), st)

\* a slip: the output file is opened before the directory is validated
generate_to_file_opening_first(w, directory, output_path, st) ==
    IF ~exists(w, directory)
    THEN Raise("FileNotFoundError",
               InParent(w, directory, normalise(output_path, output_format), "w"), st)
    ELSE IF ~PathOf(w, directory).is_dir
    THEN Raise("NotADirectoryError",
               InParent(w, directory, normalise(output_path, output_format), "w"), st)
    ELSE to_file_at(w, directory, normalise(output_path, output_format),
                    InParent(w, directory, normalise(output_path, output_format), "w"),
                    st)

\* generate_to_file(self, directory, output_path)
generate_to_file(w, directory, output_path, st) ==
    IF ~exists(w, directory) THEN Raise("FileNotFoundError", w, st)
    ELSE IF ~PathOf(w, directory).is_dir THEN Raise("NotADirectoryError", w, st)
    ELSE to_file_at(w, directory, normalise(output_path, output_format),
                    InParent(w, directory, normalise(output_path, output_format), "w"),
                    st)

\* the path an output path denotes
FullPath(directory, out) ==
    IF out.parent = "cwd" THEN <<out.name>> ELSE <<directory, out.name>>

\* the written files after one more file is written: one entry per path
Store(files, path, doc) ==
    IF \E i \in 1..Len(files) : files[i].path = path
    THEN [i \in 1..Len(files) |->
            IF files[i].path = path THEN [path |-> path, doc |-> doc] ELSE files[i]]
    ELSE Append(files, [path |-> path, doc |-> doc])

(***************************************************************************)
(* The trees, configurations and arguments the model draws from             *)
(***************************************************************************)
\* the rendered tree, in one enumeration order of the operating system; failing
\* holds the names of the directories whose listing raises PermissionError
Tree(root_name, failing) ==
    Dir(root_name, TRUE,
        << File(<<"m", ".", "p", "y", "c">>, 100, TRUE),
           Dir(<<"a">>, <<"a">> \notin failing,
               << File(<<"B">>, 7, FALSE),
                  Dir(<<"b">>, TRUE,
                      << File(<<"m", ".", "p", "y", "c">>, 100, TRUE),
                         Dir(<<"c">>, TRUE, << File(<<"d">>, 1024, TRUE) >>) >>),
                  File(<<"a", "b">>, 0, TRUE) >>),
           File(<<".", "h">>, 3, TRUE),
           Dir(<<"v", "e", "n", "v">>, TRUE, << File(<<"k">>, 5, TRUE) >>),
           File(<<"a", "a">>, 2048, TRUE),
           Dir(<<"Z">>, <<"Z">> \notin failing,
               << File(<<"f", "2">>, 1, TRUE), File(<<"f", "1">>, 1, TRUE) >>),
           File(<<"t", "_", "x">>, 0, TRUE),
           File(<<"B">>, 12, TRUE),
           File(<<"m", ".", "p", "y">>, 40, TRUE) >>)

RECURSIVE Reversed(_)
\* the same tree with every directory enumerated in the opposite order
Reversed(node) ==
    [node EXCEPT !.entries = [i \in 1..Len(node.entries) |->
                                Reversed(node.entries[Len(node.entries) + 1 - i])]]

RootNames == { <<"r">>, <<"v", "e", "n", "v">> }

\* a root with an ordinary name (every directory listable, Z failing in either
\* enumeration order, a failing) and a root whose own name is in DEFAULT_IGNORE
Trees ==
    { Tree(<<"r">>, {}),
      Tree(<<"r">>, {<<"Z">>}),
      Reversed(Tree(<<"r">>, {<<"Z">>})),
      Tree(<<"r">>, {<<"a">>}),
      Tree(<<"v", "e", "n", "v">>, {}) }

\* the working directory: the tree and a plain file next to it
World(tree) == Dir(<<>>, TRUE, << tree, File(<<"f">>, 9, TRUE) >>)

UserPatternSets ==
    { {},
      { <<"*", ".", "p", "y", "c">>, <<"t", "_", "*">> } }

Formats == {"text", "markdown", "html", "json"}

Configs ==
    [max_depth : {None} \cup 0..MaxDepthCfg,
     show_hidden : BOOLEAN,
     dirs_only : BOOLEAN,
     show_size : BOOLEAN,
     show_permissions : {FALSE},
     ignore_patterns : UserPatternSets]

\* the directory arguments: the tree, a plain file, and (the root name the working
\* directory does not hold) a path that does not exist
DirectoryArgs == RootNames \cup { <<"f">> }

\* the output paths: inside the rendered directory or next to it
OutputPaths ==
    { [parent |-> "root", name |-> <<"t", ".", "t", "x", "t">>],
      [parent |-> "cwd", name |-> <<"o">>] }

(***************************************************************************)
(* The generator instance                                                   *)
(***************************************************************************)
NoResult ==
    [call |-> "none", directory |-> <<>>, output_path |-> NoPath, before |-> TreeStats,
     world_before |-> Dir(<<>>, FALSE, <<>>), written_before |-> <<>>,
     outcome |-> Raise("none", Dir(<<>>, FALSE, <<>>), TreeStats)]

NoIgnored == [entry |-> <<>>, value |-> FALSE]

\* DirectoryTreeGenerator(config, output_format) on a filesystem
Init ==
    /\ world \in {World(t) : t \in Trees}
    /\ config \in Configs
    /\ output_format \in Formats
    /\ ignore_patterns = MergePatterns(config.ignore_patterns)
    /\ stats = TreeStats
    /\ result = NoResult
    /\ listed = <<>>
    /\ written = <<>>
    /\ calls = 0
    /\ history = <<>>
    /\ ignored = NoIgnored
    /\ formatted = <<>>

\* what the call hands back when it returns: generate_to_file ends in
\* 'return self.stats', a reference to the one TreeStats object of the instance, not
\* a copy of it (at_return notes the counters the object held at that moment);
\* "none" stands for the string of generate_to_string and for a raised exception
Returned(call, o) ==
    IF call = "generate_to_file" /\ o.exc = "none"
    THEN [object |-> "self.stats", at_return |-> o.stats]
    ELSE [object |-> "none", at_return |-> TreeStats]

\* the effect of one call whose outcome is o, on an instance used at most limit times
Call(call, directory, output_path, o, limit) ==
    /\ calls < limit
    /\ calls' = calls + 1
    /\ stats' = o.stats
    /\ listed' = o.listed
    /\ world' = o.world
    /\ written' = IF call = "generate_to_file" /\ o.exc = "none"
                  THEN Store(written, FullPath(directory, o.out), o.doc)
                  ELSE written
    /\ result' = [call |-> call, directory |-> directory, output_path |-> output_path,
                  before |-> stats, world_before |-> world, written_before |-> written,
                  outcome |-> o]
    /\ history' = Append(history, [call |-> call, directory |-> directory,
                                   output_path |-> output_path, world |-> world,
                                   returned |-> Returned(call, o)])
    /\ UNCHANGED <<config, output_format, ignore_patterns, ignored, formatted>>

\* a call of generate_to_string
StringCall(limit) ==
    \E directory \in DirectoryArgs :
        Call("generate_to_string", directory, NoPath,
             generate_to_string(world, directory, stats), limit)

\* a call of generate_to_file with one of the output paths
FileCall(paths, limit) ==
    \E directory \in DirectoryArgs, output_path \in paths :
        Call("generate_to_file", directory, output_path,
             generate_to_file(world, directory, output_path, stats), limit)

GenerateToString == StringCall(MaxCalls)

GenerateToFile == FileCall(OutputPaths, MaxCalls)

Next == GenerateToString \/ GenerateToFile

Spec == Init /\ [][Next]_vars

(***************************************************************************)
(* The ignore filter on its own: an instance built from a user pattern set, *)
(* and direct calls of should_ignore                                        *)
(***************************************************************************)
\* user patterns: the wildcard forms of the tests, an exact name, a lone '*',
\* and patterns with '*' in other arrangements
PatternUniverse ==
    { <<"*", ".", "p", "y", "c">>,
      <<"t", "_", "*">>,
      <<"t", "m", "p">>,
      <<"*", "a", "*">>,
      <<"a", "*", "b">>,
      <<"a", "*", "b", "*">>,
      <<".", "*">> }

\* the names should_ignore is asked about
EntryNames ==
    DEFAULT_IGNORE
    \cup { <<"m", ".", "p", "y", "c">>, <<"f", ".", "p", "y", "c">>, <<"m", ".", "p", "y">>,
           <<".", "p", "y", "c">>, <<"t", "_", "f", ".", "p", "y">>, <<"t", "_">>,
           <<"t", "m", "p">>, <<"t", "m", "p", "2">>, <<"n", ".", "p", "y">>,
           <<".", "r", "h">>, <<".", "a", "*">>, <<"*", "a", "b">>, <<"b", "a", "*">>,
           <<"*", "a", "*">>, <<"a", "*", "b">>, <<"a", "x", "b">>, <<"b", "a", "b">>,
           <<"e", "n", "v", "2">>, <<"a">>,
           <<"a", "*", "b", "c">>, <<"a", "x", "b", "c">> }

InitIgnore ==
    /\ world = World(Tree(<<"r">>, {}))
    /\ config \in [max_depth : {None}, show_hidden : BOOLEAN, dirs_only : {FALSE},
                   show_size : {FALSE}, show_permissions : {FALSE},
                   ignore_patterns : SUBSET PatternUniverse]
    /\ output_format = "text"
    /\ ignore_patterns = MergePatterns(config.ignore_patterns)
    /\ stats = TreeStats
    /\ result = NoResult
    /\ listed = <<>>
    /\ written = <<>>
    /\ calls = 0
    /\ history = <<>>
    /\ ignored = NoIgnored
    /\ formatted = <<>>

\* a call of should_ignore
ShouldIgnore ==
    \E entry \in EntryNames :
        /\ ignored' = [entry |-> entry, value |-> should_ignore(entry)]
        /\ UNCHANGED <<world, config, output_format, ignore_patterns, stats, result,
                       listed, written, calls, history, formatted>>

NextIgnore == ShouldIgnore

SpecIgnore == InitIgnore /\ [][NextIgnore]_vars

(***************************************************************************)
(* One instance used for several renders: self.stats is created once, in   *)
(* __init__, and every traversal adds to it                                 *)
(***************************************************************************)
ReuseConfigs ==
    [max_depth : {None, 1},
     show_hidden : {FALSE},
     dirs_only : {FALSE},
     show_size : {FALSE},
     show_permissions : {FALSE},
     ignore_patterns : {{}}]

InitReuse ==
    /\ world = World(Tree(<<"r">>, {<<"Z">>}))
    /\ config \in ReuseConfigs
    /\ output_format \in Formats
    /\ ignore_patterns = MergePatterns(config.ignore_patterns)
    /\ stats = TreeStats
    /\ result = NoResult
    /\ listed = <<>>
    /\ written = <<>>
    /\ calls = 0
    /\ history = <<>>
    /\ ignored = NoIgnored
    /\ formatted = <<>>

RenderToString == StringCall(MaxReuse)

RenderToFile == FileCall(OutputPaths, MaxReuse)

NextReuse == RenderToString \/ RenderToFile

SpecReuse == InitReuse /\ [][NextReuse]_vars

(***************************************************************************)
(* An instance that annotates the entries: show_size and show_permissions   *)
(* in every combination, over trees that hold an entry whose stat() fails   *)
(***************************************************************************)
AnnotateConfigs ==
    [max_depth : {None} \cup 0..MaxDepthCfg,
     show_hidden : BOOLEAN,
     dirs_only : BOOLEAN,
     show_size : BOOLEAN,
     show_permissions : BOOLEAN,
     ignore_patterns : {{}}]

InitAnnotate ==
    /\ world \in {World(Tree(<<"r">>, failing)) : failing \in {{}, {<<"Z">>}, {<<"a">>}}}
    /\ config \in AnnotateConfigs
    /\ output_format \in Formats
    /\ ignore_patterns = MergePatterns(config.ignore_patterns)
    /\ stats = TreeStats
    /\ result = NoResult
    /\ listed = <<>>
    /\ written = <<>>
    /\ calls = 0
    /\ history = <<>>
    /\ ignored = NoIgnored
    /\ formatted = <<>>

AnnotateToString == StringCall(MaxCalls)

AnnotateToFile == FileCall(OutputPaths, MaxCalls)

NextAnnotate == AnnotateToString \/ AnnotateToFile

SpecAnnotate == InitAnnotate /\ [][NextAnnotate]_vars

(***************************************************************************)
(* generate_to_file with output paths of every shape of final component     *)
(***************************************************************************)
\* file names: no extension, each canonical extension, another extension, two
\* extensions, a leading dot, a trailing dot, upper case, two dots in a row
PathNames ==
    { <<"o">>,
      <<"t", ".", "t", "x", "t">>,
      <<"t", ".", "m", "d">>,
      <<"t", ".", "h", "t", "m", "l">>,
      <<"t", ".", "j", "s", "o", "n">>,
      <<"a", ".", "t", "a", "r", ".", "g", "z">>,
      <<".", "h", "i", "d">>,
      <<"t", ".">>,
      <<"t", ".", "T", "X", "T">>,
      <<".", "h", ".", "m", "d">>,
      <<"a", ".", ".", "j", "s", "o", "n">>,
      <<"t", ".", "j">>,
      <<"x", ".", "t", "x", "t", ".", "j", "s", "o", "n">> }

PathArgs == [parent : {"root", "cwd"}, name : PathNames]

InitPath ==
    /\ world = World(Tree(<<"r">>, {}))
    /\ config \in [max_depth : {0}, show_hidden : {FALSE}, dirs_only : BOOLEAN,
                   show_size : {FALSE}, show_permissions : {FALSE},
                   ignore_patterns : {{}}]
    /\ output_format \in Formats
    /\ ignore_patterns = MergePatterns(config.ignore_patterns)
    /\ stats = TreeStats
    /\ result = NoResult
    /\ listed = <<>>
    /\ written = <<>>
    /\ calls = 0
    /\ history = <<>>
    /\ ignored = NoIgnored
    /\ formatted = <<>>

WriteToPath == FileCall(PathArgs, MaxCalls)

NextPath == WriteToPath

SpecPath == InitPath /\ [][NextPath]_vars

(***************************************************************************)
(* _format_size on its own                                                  *)
(***************************************************************************)
\* byte counts by their digits: 0, 1, 100, 1023; 1024 and its neighbours; counts that
\* fall on and next to a rounding tie (1.25 KB, 1.75 KB, 1.05 KB, 1.95 KB); the
\* largest count of each unit; 1024^2 .. 1024^6; 2^53 - 1; 5 * 1024^6
Sizes ==
    { <<0>>, <<1>>, <<100>>, <<512>>, <<1023>>,
      <<1, 0>>, <<1, 1>>, <<1, 51>>, <<1, 52>>, <<1, 256>>, <<1, 257>>, <<1, 768>>,
      <<1, 972>>, <<1, 973>>, <<2, 0>>, <<1023, 972>>, <<1023, 1023>>,
      <<1, 0, 0>>, <<1, 256, 0>>, <<1, 256, 1>>, <<1, 255, 1023>>, <<1023, 1023, 1023>>,
      <<1, 0, 0, 0>>, <<1023, 1023, 1023, 1023>>,
      <<1, 0, 0, 0, 0>>, <<1023, 1023, 1023, 1023, 1023>>,
      <<1, 0, 0, 0, 0, 0>>, <<7, 1023, 1023, 1023, 1023, 1023>>,
      <<1, 0, 0, 0, 0, 0, 0>>, <<5, 0, 0, 0, 0, 0, 0>> }

InitSize ==
    /\ world = World(Tree(<<"r">>, {}))
    /\ config \in [max_depth : {None}, show_hidden : {FALSE}, dirs_only : {FALSE},
                   show_size : {TRUE}, show_permissions : {FALSE},
                   ignore_patterns : {{}}]
    /\ output_format = "text"
    /\ ignore_patterns = MergePatterns(config.ignore_patterns)
    /\ stats = TreeStats
    /\ result = NoResult
    /\ listed = <<>>
    /\ written = <<>>
    /\ calls = 0
    /\ history = <<>>
    /\ ignored = NoIgnored
    /\ formatted = <<>>

\* a call of _format_size
FormatSize ==
    \E size \in Sizes :
        /\ Len(formatted) < MaxFormatCalls
        /\ formatted' = Append(formatted, [size |-> size, text |-> format_size(size)])
        /\ UNCHANGED <<world, config, output_format, ignore_patterns, stats, result,
                       listed, written, calls, history, ignored>>

NextSize == FormatSize

SpecSize == InitSize /\ [][NextSize]_vars

(***************************************************************************)
(* HTML pages of trees whose paths spell a closing script tag               *)
(***************************************************************************)
\* r holds the directory "<", which holds the directory "script>" (the path reads
\* r/</script>); below it the same once more under "<<".  failing tells which of the
\* two "script>" directories cannot be listed: "outer", "inner" or "none"
ScriptTree(failing) ==
    Dir(<<"r">>, TRUE,
        << Dir(<<"<">>, TRUE,
               << Dir(<<"s", "c", "r", "i", "p", "t", ">">>, failing # "outer",
                      << Dir(<<"<", "<">>, TRUE,
                             << Dir(<<"s", "c", "r", "i", "p", "t", ">">>,
                                    failing # "inner", <<>>) >>),
                         File(<<"x">>, 2048, TRUE) >>) >>),
           File(<<"s", "c", "r", "i", "p", "t", ">">>, 7, TRUE) >>)

InitHtml ==
    /\ world \in {World(ScriptTree(failing)) : failing \in {"outer", "inner", "none"}}
    /\ config \in [max_depth : {None} \cup 0..MaxDepthCfg, show_hidden : {FALSE},
                   dirs_only : BOOLEAN, show_size : BOOLEAN, show_permissions : {FALSE},
                   ignore_patterns : {{}}]
    /\ output_format = "html"
    /\ ignore_patterns = MergePatterns(config.ignore_patterns)
    /\ stats = TreeStats
    /\ result = NoResult
    /\ listed = <<>>
    /\ written = <<>>
    /\ calls = 0
    /\ history = <<>>
    /\ ignored = NoIgnored
    /\ formatted = <<>>

WriteHtml == FileCall(OutputPaths, MaxCalls)

NextHtml == WriteHtml

SpecHtml == InitHtml /\ [][NextHtml]_vars

(***************************************************************************)
(* An instance that renders a directory whose entries have names that are   *)
(* equal when case is ignored, in every order iterdir() can give them       *)
(***************************************************************************)
\* two files and two directories whose names differ in case only
CaseEntries ==
    { File(<<"R", "e", "a", "d", "m", "e">>, 1, TRUE),
      File(<<"r", "e", "a", "d", "m", "e">>, 2, TRUE),
      Dir(<<"L", "i", "b">>, TRUE, << File(<<"x">>, 3, TRUE) >>),
      Dir(<<"l", "i", "b">>, TRUE, <<>>) }

\* the orders in which the operating system can enumerate them
Enumerations ==
    { s \in [1..Cardinality(CaseEntries) -> CaseEntries] : Range(s) = CaseEntries }

InitOrder ==
    /\ world \in {World(Dir(<<"r">>, TRUE, s)) : s \in Enumerations}
    /\ config \in [max_depth : {None}, show_hidden : {FALSE}, dirs_only : BOOLEAN,
                   show_size : {FALSE}, show_permissions : {FALSE},
                   ignore_patterns : {{}}]
    /\ output_format \in Formats
    /\ ignore_patterns = MergePatterns(config.ignore_patterns)
    /\ stats = TreeStats
    /\ result = NoResult
    /\ listed = <<>>
    /\ written = <<>>
    /\ calls = 0
    /\ history = <<>>
    /\ ignored = NoIgnored
    /\ formatted = <<>>

OrderToString == StringCall(MaxCalls)

OrderToFile == FileCall(OutputPaths, MaxCalls)

NextOrder == OrderToString \/ OrderToFile

SpecOrder == InitOrder /\ [][NextOrder]_vars

(***************************************************************************)
(* What a document shows.  An entry is named by its path below the root.   *)
(***************************************************************************)
\* the outcome and the document of the last call
Outcome == result.outcome
Doc == result.outcome.doc
Rendered == result.call # "none" /\ Outcome.exc = "none"

\* depth from the root of a text or Markdown line (an entry of the root is at 1)
LineDepth(doc, i) ==
    IF doc.format = "text" THEN Len(doc.lines[i].prefix) + 1
    ELSE (doc.lines[i].indent \div 2) + 1

RECURSIVE LinePath(_, _)
\* the path of line i: its name under the path of the closest earlier line one level up
LinePath(doc, i) ==
    IF LineDepth(doc, i) = 1 THEN <<doc.lines[i].name>>
    ELSE LET ups == {j \in 1..(i - 1) : LineDepth(doc, j) = LineDepth(doc, i) - 1}
             up == CHOOSE j \in ups : \A k \in ups : k <= j
         IN  Append(LinePath(doc, up), doc.lines[i].name)

RECURSIVE JsonPaths(_, _)
\* the paths of the named nodes below a JSON node, in document order
JsonPaths(node, path) ==
    LET Below(i) ==
            IF "name" \in node.children[i].keys
            THEN <<Append(path, node.children[i].name)>>
                 \o JsonPaths(node.children[i], Append(path, node.children[i].name))
            ELSE <<>>
        Flat[i \in 0..Len(node.children)] ==
            IF i = 0 THEN <<>> ELSE Flat[i - 1] \o Below(i)
    IN  Flat[Len(node.children)]

\* the paths of the entries a document shows by name, in document order
DocPaths(doc) ==
    IF doc.format \in {"text", "markdown"}
    THEN [i \in 1..Len(doc.lines) |-> LinePath(doc, i)]
    ELSE JsonPaths(doc.tree, <<>>)

\* the names a document gives to the root itself
DocRootNames(doc) ==
    {doc.heading[i].text : i \in {k \in 1..Len(doc.heading) : doc.heading[k].text # <<>>}}
    \cup (IF "name" \in doc.tree.keys THEN {doc.tree.name} ELSE {})
    \cup (IF doc.format = "html" THEN {doc.title, doc.stats.root} ELSE {})

Last(s) == s[Len(s)]

RECURSIVE NodeAt(_, _)
\* the node of the filesystem at a path below a directory
NodeAt(d, path) ==
    IF path = <<>> THEN d
    ELSE NodeAt(CHOOSE e \in Range(d.entries) : e.name = path[1], Tail(path))

RECURSIVE AllPaths(_)
\* the paths of everything below a directory
AllPaths(d) ==
    UNION { {<<d.entries[i].name>>}
            \cup { <<d.entries[i].name>> \o p : p \in AllPaths(d.entries[i]) }
            : i \in 1..Len(d.entries) }

(***************************************************************************)
(* Claims                                                                   *)
(***************************************************************************)
\* the directory the last call rendered, as the traversal read it
Seen == result.outcome.seen

\* path p below the root was handed to iterdir() by the last call
WasListed(p) == \E i \in 1..Len(listed) : listed[i] = <<result.directory>> \o p

IsDirAt(p) == NodeAt(Seen, p).is_dir
FailedAt(p) == IsDirAt(p) /\ WasListed(p) /\ ~NodeAt(Seen, p).list_ok
ListedOkAt(p) == IsDirAt(p) /\ WasListed(p) /\ NodeAt(Seen, p).list_ok

Front(p) == SubSeq(p, 1, Len(p) - 1)

NoEntryIgnored(paths) == \A i \in 1..Len(paths) : ~should_ignore(Last(paths[i]))

\* C1 (as amended): in every document a call produces (text, Markdown, JSON, the
\* tree embedded in HTML), no line or node for an entry below the root carries a
\* name that should_ignore reports true for.
C1_NoIgnoredEntryRendered == Rendered => NoEntryIgnored(DocPaths(Doc))

\* C1 (as stated): the same, and the root's own heading line / root node / title
\* carries no ignored name either.
C1_NoIgnoredNameAnywhere ==
    Rendered => /\ NoEntryIgnored(DocPaths(Doc))
                /\ \A n \in DocRootNames(Doc) : ~should_ignore(n)

\* C1 witness: a document with entries, of a root that holds an ignored entry
C1_Witness ==
    /\ Rendered
    /\ Len(DocPaths(Doc)) > 0
    /\ \E i \in 1..Len(Seen.entries) : should_ignore(Seen.entries[i].name)

DepthAtMost(paths, n) == \A i \in 1..Len(paths) : Len(paths[i]) <= n

\* C2 (as stated): with max_depth = N no rendered node lies deeper than N below the
\* root (an entry of the root is at depth 1).
C2_NoNodeDeeperThanMaxDepth ==
    Rendered /\ config.max_depth # None => DepthAtMost(DocPaths(Doc), config.max_depth)

Shows(paths, p) == \E i \in 1..Len(paths) : paths[i] = p

ShowsChainTo(paths, a, b, c) ==
    /\ Shows(paths, <<a>>)
    /\ Shows(paths, <<a, b>>)
    /\ ~Shows(paths, <<a, b, c>>)

\* root/a/b/c is there, a can be listed and none of the three names is ignored
ChainScenario(a, b, c) ==
    /\ <<a, b, c>> \in AllPaths(Seen)
    /\ NodeAt(Seen, <<a>>).list_ok
    /\ ~should_ignore(a) /\ ~should_ignore(b) /\ ~should_ignore(c)

\* C3 (as stated): for root/a/b/c and max_depth = 1, every format shows a and b by
\* name and no format shows c.
C3_ChainShownToB ==
    Rendered /\ config.max_depth = 1 /\ ChainScenario(<<"a">>, <<"b">>, <<"c">>)
        => ShowsChainTo(DocPaths(Doc), <<"a">>, <<"b">>, <<"c">>)

\* i and j are children of the same rendered directory
Siblings(paths, i, j) == Front(paths[i]) = Front(paths[j])

NameLeq(p, q) == ~StrLess(lower(Last(q)), lower(Last(p)))

\* directory that listed (or was not listed at all), file, or failed directory
KindAt(p) == IF ~IsDirAt(p) THEN "file" ELSE IF FailedAt(p) THEN "error" ELSE "directory"

\* the ordering as stated: successfully listed directories before files and failed
\* directories; within one kind the lower-cased names do not decrease
OrderedAsStated(paths) ==
    \A i, j \in 1..Len(paths) :
        i < j /\ Siblings(paths, i, j) =>
            /\ ~(KindAt(paths[j]) = "directory" /\ KindAt(paths[i]) # "directory")
            /\ KindAt(paths[i]) = KindAt(paths[j]) => NameLeq(paths[i], paths[j])

\* the ordering of the code: directories, failed or not, before files; within
\* directories and within files the lower-cased names do not decrease
OrderedByKey(paths) ==
    \A i, j \in 1..Len(paths) :
        i < j /\ Siblings(paths, i, j) =>
            /\ ~(IsDirAt(paths[j]) /\ ~IsDirAt(paths[i]))
            /\ IsDirAt(paths[i]) = IsDirAt(paths[j]) => NameLeq(paths[i], paths[j])

\* the entries shown below directory p, in document order
Below(paths, p) == SelectSeq(paths, LAMBDA q : Len(q) = Len(p) + 1 /\ Front(q) = p)

\* a listed directory that holds exactly f1 and f2 (enumerated f2 first) shows
\* exactly these two, f1 first
TwoFilesInOrder(paths) ==
    ListedOkAt(<<<<"Z">>>>) /\ ~config.dirs_only
        => Below(paths, <<<<"Z">>>>) = << <<<<"Z">>, <<"f", "1">>>>, <<<<"Z">>, <<"f", "2">>>> >>

Expected(d) ==
    { p \in AllPaths(d) :
        /\ \A k \in 1..Len(p) : ~should_ignore(p[k])
        /\ \A k \in 1..(Len(p) - 1) : NodeAt(d, SubSeq(p, 1, k)).list_ok }

CompleteAndExact(paths, expected) ==
    /\ Range(paths) = expected
    /\ Len(paths) = Cardinality(expected)
    /\ \A i \in 1..Len(listed) : \A k \in 2..Len(listed[i]) : ~should_ignore(listed[i][k])
    /\ stats.total_dirs - result.before.total_dirs
           = Cardinality({p \in expected : IsDirAt(p)})
    /\ stats.total_files - result.before.total_files
           = Cardinality({p \in expected : ~IsDirAt(p)})

\* C5: with max_depth unset and dirs_only false an entry appears exactly when neither
\* its name nor an ancestor's (below the root) is ignored and every ancestor listed
\* successfully; nothing beneath an ignored directory is listed, rendered or counted.
C5_ExactlyTheReachableEntries ==
    Rendered /\ config.max_depth = None /\ ~config.dirs_only
        => CompleteAndExact(DocPaths(Doc), Expected(Seen))

\* C5 witness: a full render of a tree in which an ignored directory (venv) holds an
\* entry whose own name is not ignored (k), and entries three levels down appear
C5_Witness ==
    /\ Rendered /\ config.max_depth = None /\ ~config.dirs_only
    /\ should_ignore(<<"v", "e", "n", "v">>) /\ ~should_ignore(<<"k">>)
    /\ <<<<"v", "e", "n", "v">>, <<"k">>>> \in AllPaths(Seen)
    /\ Shows(DocPaths(Doc), <<<<"a">>, <<"b">>, <<"c">>, <<"d">>>>)

(***************************************************************************)
(* Claims about should_ignore                                               *)
(***************************************************************************)
\* should_ignore was called, on entry, and returned value
Asked == ignored.entry # <<>>

HiddenFiltered(entry) == ~config.show_hidden /\ startswith(entry, <<".">>)

IsLeadingStar(p) == startswith(p, <<"*">>)
IsTrailingStar(p) == endswith(p, <<"*">>)

\* a pattern read as *suffix matches the names that end in suffix
MatchesAsSuffix(p, entry) == IsLeadingStar(p) /\ endswith(entry, Tail(p))

\* a pattern read as prefix* matches the names that start with prefix
MatchesAsPrefix(p, entry) == IsTrailingStar(p) /\ startswith(entry, Front(p))

\* matching as stated: equality, or either wildcard reading
MatchesAsStated(p, entry) ==
    p = entry \/ MatchesAsSuffix(p, entry) \/ MatchesAsPrefix(p, entry)

\* matching as the code does it: a pattern that begins with '*' is only ever read
\* as *suffix
MatchesAsCoded(p, entry) ==
    p = entry \/ MatchesAsSuffix(p, entry) \/ (~IsLeadingStar(p) /\ MatchesAsPrefix(p, entry))

\* C6 (as stated): *suffix ignores every name ending in suffix, prefix* ignores every
\* name starting with prefix, and a name that is not hidden-filtered is ignored
\* exactly when some pattern of the merged set matches it.
C6_WildcardsAsStated ==
    Asked =>
        /\ \A p \in ignore_patterns : MatchesAsSuffix(p, ignored.entry) => ignored.value
        /\ \A p \in ignore_patterns : MatchesAsPrefix(p, ignored.entry) => ignored.value
        /\ ~HiddenFiltered(ignored.entry) =>
               (ignored.value <=> \E p \in ignore_patterns : MatchesAsStated(p, ignored.entry))

\* C6 (as amended): *suffix ignores every name ending in suffix; prefix*, when the
\* pattern does not itself begin with '*', ignores every name starting with prefix;
\* a name that is not hidden-filtered is ignored exactly when some pattern of the
\* merged set equals it or matches it in one of these two ways.
C6_WildcardsLeadingStarFirst ==
    Asked =>
        /\ \A p \in ignore_patterns : MatchesAsSuffix(p, ignored.entry) => ignored.value
        /\ \A p \in ignore_patterns :
               ~IsLeadingStar(p) /\ MatchesAsPrefix(p, ignored.entry) => ignored.value
        /\ ~HiddenFiltered(ignored.entry) =>
               (ignored.value <=> \E p \in ignore_patterns : MatchesAsCoded(p, ignored.entry))

\* C6 witness: with {*.pyc, t_*} among the patterns, a name ignored by a suffix match
\* only
C6_Witness ==
    /\ Asked /\ ignored.value
    /\ ignored.entry = <<"m", ".", "p", "y", "c">>
    /\ <<"*", ".", "p", "y", "c">> \in ignore_patterns
    /\ <<"t", "_", "*">> \in ignore_patterns

\* the number of '*' in a pattern
Stars(p) == Cardinality({k \in 1..Len(p) : p[k] = "*"})

\* a pattern with a single '*', leading or trailing
SingleWildcard(p) == Stars(p) = 1 /\ (IsLeadingStar(p) \/ IsTrailingStar(p))

\* a pattern whose '*' are all in the interior
InteriorOnly(p) == Stars(p) >= 1 /\ ~IsLeadingStar(p) /\ ~IsTrailingStar(p)

\* C25 (as stated): only a single leading or a single trailing '*' is a wildcard; a
\* pattern with '*' in any other arrangement makes should_ignore return true for no
\* name but the one equal to it.  So every ignored name that is not hidden-filtered
\* equals a pattern or is matched by a pattern with a single wildcard.
C25_OnlySingleStarIsWildcard ==
    Asked /\ ignored.value /\ ~HiddenFiltered(ignored.entry) =>
        \E p \in ignore_patterns :
            \/ p = ignored.entry
            \/ SingleWildcard(p) /\ (MatchesAsSuffix(p, ignored.entry)
                                      \/ MatchesAsPrefix(p, ignored.entry))

\* C25 (as amended): a pattern whose '*' are all in the interior makes should_ignore
\* return true for no name but the one equal to it; a pattern that begins with '*'
\* is a suffix wildcard whatever else it holds ('*a*' ignores every name that ends in
\* 'a*'), and one that ends with '*' without beginning with it is a prefix wildcard.
C25_InteriorStarIsLiteral ==
    Asked /\ ~HiddenFiltered(ignored.entry) =>
        /\ ignored.value =>
               \E p \in ignore_patterns :
                   \/ p = ignored.entry
                   \/ ~InteriorOnly(p) /\ MatchesAsCoded(p, ignored.entry)
        /\ \A p \in ignore_patterns :
               ~SingleWildcard(p) /\ MatchesAsCoded(p, ignored.entry) => ignored.value

\* C25 witness: the only user pattern is a*b, and the name axb, which a glob would
\* match, is kept
C25_Witness ==
    /\ Asked /\ ~ignored.value
    /\ ignored.entry = <<"a", "x", "b">>
    /\ config.ignore_patterns = { <<"a", "*", "b">> }

\* C7: the hidden rule comes first.  With show_hidden false every name starting with
\* '.' is ignored whatever the patterns; with show_hidden true such a name is ignored
\* exactly when a pattern of the merged set matches it.
C7_HiddenRuleFirst ==
    Asked /\ startswith(ignored.entry, <<".">>) =>
        IF ~config.show_hidden THEN ignored.value
        ELSE ignored.value <=> \E p \in ignore_patterns : MatchesAsStated(p, ignored.entry)

\* C7 witness: show_hidden is true and a hidden name that no pattern matches is kept
C7_Witness ==
    /\ Asked /\ config.show_hidden
    /\ ignored.entry = <<".", "r", "h">>
    /\ ~ignored.value

\* C8: whatever the user's patterns and show_hidden, every name of the built-in
\* default set is ignored, and the merged set holds the default set and the user's.
C8_DefaultsAlwaysIgnored ==
    /\ DEFAULT_IGNORE \subseteq ignore_patterns
    /\ config.ignore_patterns \subseteq ignore_patterns
    /\ Asked /\ ignored.entry \in DEFAULT_IGNORE => ignored.value

\* C8 witness: a non-hidden default name is ignored by an instance that shows hidden
\* entries and was given patterns of its own
C8_Witness ==
    /\ Asked /\ ignored.value
    /\ config.show_hidden /\ config.ignore_patterns # {}
    /\ ignored.entry = <<"n", "o", "d", "e", "_", "m", "o", "d", "u", "l", "e", "s">>

(***************************************************************************)
(* Claims about the entry points                                            *)
(***************************************************************************)
\* the directory argument of the last call named an existing directory
ValidRoot ==
    /\ exists(result.world_before, result.directory)
    /\ PathOf(result.world_before, result.directory).is_dir

\* every entry of the root that the filter keeps is shown by name
ShowsRootEntries(paths) ==
    \A i \in 1..Len(Seen.entries) :
        keeps(Seen.entries[i]) => Shows(paths, <<Seen.entries[i].name>>)

\* C9 (as stated): for a root that exists and is a directory generate_to_string
\* returns the rendered document in each of the four formats; for HTML a page that
\* carries the names of the root's entries.
C9_StringInEveryFormat ==
    result.call = "generate_to_string" /\ ValidRoot =>
        /\ Outcome.exc = "none"
        /\ Doc.format = output_format
        /\ ShowsRootEntries(DocPaths(Doc))

\* C10: when the root path does not exist or is not a directory, generate_to_string
\* and generate_to_file raise FileNotFoundError / NotADirectoryError before any
\* traversal: nothing is listed, no counter changes, and no file is created,
\* truncated or written.
C10_InvalidRootFailsBeforeTraversal ==
    result.call # "none" /\ ~ValidRoot =>
        /\ Outcome.exc = IF exists(result.world_before, result.directory)
                         THEN "NotADirectoryError" ELSE "FileNotFoundError"
        /\ listed = <<>>
        /\ stats = result.before
        /\ world = result.world_before
        /\ written = result.written_before

\* C10 witness: generate_to_file was called on a plain file with an output path
\* next to it
C10_Witness ==
    /\ result.call = "generate_to_file"
    /\ result.directory = <<"f">>
    /\ result.output_path.parent = "cwd"
    /\ Outcome.exc = "NotADirectoryError"

(***************************************************************************)
(* Claims about failures during a traversal                                 *)
(***************************************************************************)
RECURSIVE Emptied(_)
\* the same filesystem with every directory that cannot be listed made an empty,
\* listable directory
Emptied(node) ==
    IF node.is_dir /\ ~node.list_ok THEN [node EXCEPT !.list_ok = TRUE, !.entries = <<>>]
    ELSE [node EXCEPT !.entries = [i \in 1..Len(node.entries) |-> Emptied(node.entries[i])]]

\* the outcome the last call would have had on filesystem w, from the same statistics
Replay(w) ==
    IF result.call = "generate_to_string"
    THEN generate_to_string(w, result.directory, result.before)
    ELSE generate_to_file(w, result.directory, result.output_path, result.before)

RECURSIVE StripErrors(_)
\* a JSON tree without its "error" keys
StripErrors(tree) ==
    [tree EXCEPT !.keys = @ \ {"error"}, !.error = NoError,
                 !.children = [i \in 1..Len(tree.children) |-> StripErrors(tree.children[i])]]

\* a document apart from the text of the data it embeds (which spells the tree out)
Content(doc) == [doc EXCEPT !.script = <<>>]

\* a document without the "error" keys of its tree
WithoutErrors(doc) == Content([doc EXCEPT !.tree = StripErrors(@)])

RECURSIVE JsonNodesAt(_, _)
\* the nodes of a JSON tree that are named by path p below it
JsonNodesAt(tree, p) ==
    IF p = <<>> THEN {tree}
    ELSE UNION { JsonNodesAt(tree.children[i], Tail(p)) :
                 i \in {k \in 1..Len(tree.children) :
                          /\ "name" \in tree.children[k].keys
                          /\ tree.children[k].name = p[1]} }

\* the paths (below the root, <<>> for the root) whose listing failed in the last call
FailedListings ==
    { Tail(listed[i]) : i \in {k \in 1..Len(listed) : ~NodeAt(Seen, Tail(listed[k])).list_ok} }

\* the JSON node of every failed directory carries its name, its type and the message
ErrorNodes(doc) ==
    doc.format \in {"json", "html"} =>
        \A p \in FailedListings :
            /\ JsonNodesAt(doc.tree, p) # {}
            /\ \A n \in JsonNodesAt(doc.tree, p) :
                   /\ {"name", "type", "error"} \subseteq n.keys
                   /\ n.name = NodeAt(Seen, p).name
                   /\ n.type = "directory"
                   /\ n.error = ListingError(<<result.directory>> \o p)

\* the last call agrees with what it gives when the failing directories are empty:
\* the same document apart from the "error" keys, the same directory and file counts
SameAsIfEmpty(o, alt) ==
    /\ alt.exc = "none"
    /\ WithoutErrors(o.doc) = Content(alt.doc)
    /\ o.stats.total_dirs = alt.stats.total_dirs
    /\ o.stats.total_files = alt.stats.total_files
    /\ alt.stats.errors = result.before.errors

\* C11: when listings fail during a traversal the call still returns, Stats.errors
\* grows by exactly one per failed directory, the JSON node of a failed directory
\* carries its name, type "directory" and the message under "error", and everything
\* else is rendered and counted as if the failed directories were empty.
C11_ListingFailureRecoveredLocally ==
    result.call # "none" /\ FailedListings # {} =>
        /\ Outcome.exc = "none"
        /\ stats.errors = result.before.errors + Cardinality(FailedListings)
        /\ Len(SelectSeq(listed, LAMBDA q : Tail(q) \in FailedListings))
               = Cardinality(FailedListings)
        /\ ErrorNodes(Doc)
        /\ SameAsIfEmpty(Outcome, Replay(Emptied(result.world_before)))

\* C11 witness: a JSON render in which the listing of a failed, while its sibling Z and
\* the files of the root were rendered
C11_Witness ==
    /\ Rendered /\ Doc.format = "json"
    /\ FailedListings = {<<<<"a">>>>}
    /\ Shows(DocPaths(Doc), <<<<"Z">>, <<"f", "1">>>>)
    /\ Shows(DocPaths(Doc), <<<<"a">>>>)
    /\ Shows(DocPaths(Doc), <<<<"m", ".", "p", "y">>>>)

RECURSIVE Restat(_)
\* the same filesystem with stat() succeeding on every entry
Restat(node) ==
    [node EXCEPT !.stat_ok = TRUE,
                 !.entries = [i \in 1..Len(node.entries) |-> Restat(node.entries[i])]]

\* stat() fails on the entry at path p below the rendered directory
StatFailed(p) == ~NodeAt(Seen, p).stat_ok

\* text / Markdown lines with the annotation taken off the entries whose stat() fails
UnannotatedLines(doc) ==
    [i \in 1..Len(doc.lines) |->
        IF StatFailed(LinePath(doc, i)) THEN [doc.lines[i] EXCEPT !.info = <<>>]
        ELSE doc.lines[i]]

RECURSIVE UnannotatedTree(_, _)
\* a JSON tree with the "size" key taken off the entries whose stat() fails
UnannotatedTree(tree, path) ==
    LET Child(c) ==
            IF "name" \notin c.keys THEN c
            ELSE IF StatFailed(Append(path, c.name))
            THEN [UnannotatedTree(c, Append(path, c.name)) EXCEPT
                      !.keys = @ \ {"size"}, !.size = 0]
            ELSE UnannotatedTree(c, Append(path, c.name))
    IN  [tree EXCEPT !.children = [i \in 1..Len(tree.children) |-> Child(tree.children[i])]]

Unannotated(doc) ==
    IF doc.format \in {"text", "markdown"}
    THEN [doc EXCEPT !.lines = UnannotatedLines(doc)]
    ELSE [doc EXCEPT !.tree = UnannotatedTree(doc.tree, <<>>)]

\* some rendered entry is one whose stat() fails
ShowsStatFailure(paths) == \E i \in 1..Len(paths) : StatFailed(paths[i])

\* the document and the statistics are what they are when every stat() succeeds,
\* except that the entries whose stat() fails carry no annotation
SameButAnnotation(o, alt) ==
    /\ alt.exc = "none"
    /\ Content(o.doc) = Content(Unannotated(alt.doc))
    /\ o.stats = alt.stats

\* C12: an entry whose stat() fails is still rendered and counted; only its
\* annotation (the suffix of its text / Markdown line, the "size" key of its JSON
\* node) is missing, and Stats.errors does not grow for it.
C12_StatFailureOmitsAnnotationOnly ==
    Rendered => SameButAnnotation(Outcome, Replay(Restat(result.world_before)))

\* C12 witness: sizes and permissions are shown, an entry whose stat() fails is
\* rendered next to entries that carry their annotation
C12_Witness ==
    /\ Rendered /\ config.show_size /\ config.show_permissions
    /\ ShowsStatFailure(DocPaths(Doc))
    /\ Doc.format = "text"
    /\ \E i \in 1..Len(Doc.lines) : Len(Doc.lines[i].info) = 2
    /\ \E i \in 1..Len(Doc.lines) :
           StatFailed(LinePath(Doc, i)) /\ Doc.lines[i].info = <<>>

(***************************************************************************)
(* Claims about the JSON tree and the statistics                            *)
(***************************************************************************)
RECURSIVE CountType(_, _)
\* the number of nodes below a JSON node whose "type" is type
CountType(node, type) ==
    LET One(c) == (IF "type" \in c.keys /\ c.type = type THEN 1 ELSE 0) + CountType(c, type)
        Sum[i \in 0..Len(node.children)] ==
            IF i = 0 THEN 0 ELSE Sum[i - 1] + One(node.children[i])
    IN  Sum[Len(node.children)]

\* the last call was a JSON render on an instance whose counters were all zero
FreshJsonRender == Rendered /\ Doc.format = "json" /\ result.before = TreeStats

\* C13 (as stated): after one JSON render on a fresh instance, under any
\* configuration, the "directory" nodes below the root are Stats.total_dirs many and
\* the "file" nodes Stats.total_files many.
C13_JsonCountsEqualStats ==
    FreshJsonRender =>
        /\ CountType(Doc.tree, "directory") = stats.total_dirs
        /\ CountType(Doc.tree, "file") = stats.total_files

\* the same with max_depth unset
C13_JsonCountsEqualStatsUnbounded ==
    FreshJsonRender /\ config.max_depth = None =>
        /\ CountType(Doc.tree, "directory") = stats.total_dirs
        /\ CountType(Doc.tree, "file") = stats.total_files

(***************************************************************************)
(* Claims about the statistics of an instance that is used again            *)
(***************************************************************************)
\* what call h contributes: the statistics it leaves on an instance whose counters
\* are all zero
Contribution(h) ==
    IF h.call = "generate_to_string"
    THEN generate_to_string(h.world, h.directory, TreeStats).stats
    ELSE generate_to_file(h.world, h.directory, h.output_path, TreeStats).stats

\* the counters a plus the counters c
Plus(a, c) ==
    [total_dirs |-> a.total_dirs + c.total_dirs,
     total_files |-> a.total_files + c.total_files,
     skipped |-> a.skipped + c.skipped,
     errors |-> a.errors + c.errors]

RECURSIVE ContributedFrom(_, _)
\* sum, added to the contributions of the calls from the i-th on
ContributedFrom(i, sum) ==
    IF i > Len(history) THEN sum
    ELSE ContributedFrom(i + 1, Plus(sum, Contribution(history[i])))

\* the sum of the contributions of the calls made so far
Contributed == ContributedFrom(1, TreeStats)

\* every call so far was the same generate_to_string call on the same filesystem
SameRenderRepeated ==
    /\ history # <<>>
    /\ \A i \in 1..Len(history) :
           /\ history[i].call = "generate_to_string"
           /\ history[i].directory = history[1].directory
           /\ history[i].world = history[1].world

Times(n, st) ==
    [total_dirs |-> n * st.total_dirs, total_files |-> n * st.total_files,
     skipped |-> n * st.skipped, errors |-> n * st.errors]

\* C14: the counters are never reset by a render.  After any sequence of calls each
\* counter is the sum of what the calls contributed, n renders of the same unchanged
\* tree leave n times the counts of one, and no call makes a counter smaller.
C14_CountersAccumulate ==
    /\ stats = Contributed
    /\ SameRenderRepeated => stats = Times(Len(history), Contribution(history[1]))
    /\ result.call # "none" =>
           /\ stats.total_dirs >= result.before.total_dirs
           /\ stats.total_files >= result.before.total_files
           /\ stats.errors >= result.before.errors

\* C14 witness: the third render of the same tree by the same instance, with
\* directories, files and a failed listing counted three times over
C14_Witness ==
    /\ Len(history) = 3 /\ SameRenderRepeated /\ Rendered
    /\ result.before.total_files > 0
    /\ stats.total_dirs = 3 * Contribution(history[1]).total_dirs
    /\ stats.total_dirs > 0
    /\ stats.errors = 3

(***************************************************************************)
(* Claims about the output path                                             *)
(***************************************************************************)
\* the final extension of a file name: from its last dot on, when that dot is neither
\* the first nor the last character
FinalExtension(name) ==
    LET dots == {i \in 2..(Len(name) - 1) : name[i] = "."}
    IN  IF dots = {} \/ name[Len(name)] = "." THEN <<>>
        ELSE SubSeq(name, CHOOSE i \in dots : \A k \in dots : k <= i, Len(name))

WithoutFinalExtension(name) == SubSeq(name, 1, Len(name) - Len(FinalExtension(name)))

\* one canonical extension per format, pairwise distinct
CanonicalExtensions ==
    /\ get_extension_for_format("text") = <<".", "t", "x", "t">>
    /\ get_extension_for_format("markdown") = <<".", "m", "d">>
    /\ get_extension_for_format("html") = <<".", "h", "t", "m", "l">>
    /\ get_extension_for_format("json") = <<".", "j", "s", "o", "n">>
    /\ \A f, g \in Formats :
           f # g => get_extension_for_format(f) # get_extension_for_format(g)

\* the file name written for file name given, with canonical extension ext
NameAsStated(given, out, ext) ==
    /\ FinalExtension(out) = ext
    /\ FinalExtension(given) = ext => out = given
    /\ FinalExtension(given) = <<>> => out = given \o ext
    /\ FinalExtension(given) \notin {<<>>, ext} => out = WithoutFinalExtension(given) \o ext

\* the file of the last call is there, in the directory asked for, and it is what
\* the call wrote
WrittenAt(out) ==
    /\ out.parent = result.output_path.parent
    /\ written # <<>>
    /\ Last(written).path = FullPath(result.directory, out)
    /\ Last(written).doc = Doc
    /\ LET parent == IF out.parent = "cwd" THEN world ELSE PathOf(world, result.directory)
       IN  \E i \in 1..Len(parent.entries) :
               parent.entries[i].name = out.name /\ parent.entries[i].size > 0

\* C15: generate_to_file writes to a path whose final extension is the canonical one
\* of the format (.txt, .md, .html, .json, pairwise distinct): a name that carries it
\* is used as it is, a name without extension gets it appended, a name with another
\* final extension has only that one replaced; normalising again changes nothing.
C15_CanonicalExtensionWritten ==
    /\ CanonicalExtensions
    /\ result.call = "generate_to_file" /\ Rendered =>
           /\ NameAsStated(result.output_path.name, Outcome.out.name,
                           get_extension_for_format(output_format))
           /\ WrittenAt(Outcome.out)
           /\ normalise(Outcome.out, output_format) = Outcome.out

\* C15 witness: a JSON tree asked for under a.tar.gz was written to a.tar.json
C15_Witness ==
    /\ result.call = "generate_to_file" /\ Rendered /\ output_format = "json"
    /\ result.output_path.name = <<"a", ".", "t", "a", "r", ".", "g", "z">>
    /\ Outcome.out.name = <<"a", ".", "t", "a", "r", ".", "j", "s", "o", "n">>
    /\ written # <<>>

(***************************************************************************)
(* Claims about _format_size                                                *)
(***************************************************************************)
\* the unit labels in order, and the index of the label a text carries
UnitLabels == <<"B", "KB", "MB", "GB", "TB", "PB">>
UnitIndex(text) == CHOOSE k \in 0..5 : UnitLabels[k + 1] = text.unit

\* the largest k <= 5 with 1024^k <= n: a count of d base-1024 digits lies in
\* 1024^(d-1) .. 1024^d - 1 (k = 0 for a count below 1024, zero included)
StatedIndex(size) == IF Len(size) - 1 < 5 THEN Len(size) - 1 ELSE 5

\* size <= other, as numbers
SizeLeq(size, other) ==
    \/ Len(size) < Len(other)
    \/ /\ Len(size) = Len(other)
       /\ LET diff == {i \in 1..Len(size) : size[i] # other[i]}
          IN  diff = {} \/ LET i == CHOOSE j \in diff : \A k \in diff : j <= k
                           IN  size[i] < other[i]

\* the number shown is n / 1024^k to one fractional digit: ten times the number is
\* within one half of 10 * n / 1024^k.  With n / 1024^k = w + (h + e) / 1024^2, h the
\* first two digits after the point and 0 <= e < 1, and d = 10 * shown - 10 * w, this
\* is  -1024^2 <= 2 * d * 1024^2 - 20 * h - 20 * e <= 1024^2.
ShownToOneDigit(size, text) ==
    LET k == StatedIndex(size)
        w == Value(SubSeq(size, 1, Len(size) - k))
        f == SubSeq(size, Len(size) - k + 1, Len(size)) \o <<0, 0>>
        h == 1024 * f[1] + f[2]
        exact == \A i \in 3..Len(f) : f[i] = 0
        d == 10 * text.whole + text.tenths - 10 * w
        x == 2 * d * 1048576 - 20 * h
    IN  /\ text.tenths \in 0..9
        /\ x <= 1048576
        /\ IF exact THEN x >= -1048576 ELSE x >= -1048576 + 20

\* the results the statement spells out
StatedExamples(f) ==
    /\ f.size = <<100>> => f.text = [whole |-> 100, tenths |-> 0, unit |-> "B"]
    /\ f.size = <<1, 0>> => f.text = [whole |-> 1, tenths |-> 0, unit |-> "KB"]
    /\ f.size = <<1, 0, 0>> => f.text = [whole |-> 1, tenths |-> 0, unit |-> "MB"]
    /\ f.size = <<1, 0, 0, 0>> => f.text = [whole |-> 1, tenths |-> 0, unit |-> "GB"]

\* C16: _format_size(n) shows n / 1024^k to one fractional digit with the k-th unit
\* label of B, KB, MB, GB, TB, PB, k the largest index with 1024^k <= n (0 below
\* 1024, at most PB): 100 -> 100.0B, 1024 -> 1.0KB, 1024^2 -> 1.0MB, 1024^3 -> 1.0GB;
\* and a smaller count never gets a larger unit than a larger count.
C16_UnitByRepeatedDivision ==
    /\ \A i \in 1..Len(formatted) :
           /\ UnitIndex(formatted[i].text) = StatedIndex(formatted[i].size)
           /\ ShownToOneDigit(formatted[i].size, formatted[i].text)
           /\ StatedExamples(formatted[i])
    /\ \A i, j \in 1..Len(formatted) :
           SizeLeq(formatted[i].size, formatted[j].size)
               => UnitIndex(formatted[i].text) <= UnitIndex(formatted[j].text)

\* C16 witness: 1024^2 - 1 was formatted as 1024.0KB and 1024^2 as 1.0MB
C16_Witness ==
    /\ Len(formatted) = 2
    /\ formatted[1] = [size |-> <<1023, 1023>>,
                       text |-> [whole |-> 1024, tenths |-> 0, unit |-> "KB"]]
    /\ formatted[2] = [size |-> <<1, 0, 0>>,
                       text |-> [whole |-> 1, tenths |-> 0, unit |-> "MB"]]

(***************************************************************************)
(* Claims about dirs_only                                                   *)
(***************************************************************************)
\* the directories that must appear: no name on the path is ignored, every directory
\* above can be listed, and the depth (an entry of the root is at 1) is within the bound
ExpectedDirectories(d) ==
    { p \in Expected(d) :
        /\ NodeAt(d, p).is_dir
        /\ config.max_depth = None \/ Len(p) <= config.max_depth }

\* a listed directory that holds one file and one subdirectory (a/b holds m.pyc and
\* c) shows exactly one entry, the subdirectory
OnlyTheSubdirectory(paths) ==
    config.max_depth = None /\ ListedOkAt(<< <<"a">>, <<"b">> >>)
        => Below(paths, << <<"a">>, <<"b">> >>) = << << <<"a">>, <<"b">>, <<"c">> >> >>

\* C17: with dirs_only set no file appears in any output at any depth, the render
\* leaves Stats.total_files as it was, and every directory that is not ignored and
\* lies within the depth bound still appears; a directory that holds a file and a
\* subdirectory renders exactly one entry, the subdirectory.
C17_DirsOnlyShowsNoFile ==
    Rendered /\ config.dirs_only =>
        /\ \A p \in Range(DocPaths(Doc)) : IsDirAt(p)
        /\ CountType(Doc.tree, "file") = 0
        /\ stats.total_files = result.before.total_files
        /\ ExpectedDirectories(Seen) \subseteq Range(DocPaths(Doc))
        /\ OnlyTheSubdirectory(DocPaths(Doc))

\* C17 witness: a dirs_only render of a tree with files at every level, which shows
\* the directory three levels down
C17_Witness ==
    /\ Rendered /\ config.dirs_only /\ config.max_depth = None
    /\ \E p \in AllPaths(Seen) : Len(p) = 4 /\ ~IsDirAt(p)
    /\ Shows(DocPaths(Doc), << <<"a">>, <<"b">>, <<"c">> >>)
    /\ stats.total_dirs > result.before.total_dirs

(***************************************************************************)
(* Claims about the shape of the JSON tree                                  *)
(***************************************************************************)
\* the keys of one node, for the entry at path p, are those of the schema
NodeAsStated(n, p) ==
    /\ {"name", "type"} \subseteq n.keys
    /\ n.type \in {"directory", "file"}
    /\ n.type = "directory" => "children" \in n.keys /\ "size" \notin n.keys
    /\ n.type = "file" =>
           /\ "children" \notin n.keys
           /\ "size" \in n.keys <=> config.show_size /\ NodeAt(Seen, p).stat_ok
    /\ "error" \in n.keys => n.type = "directory" /\ ~NodeAt(Seen, p).list_ok

RECURSIVE TreeAsStated(_, _)
\* every node of the tree below and including n is as the schema says
TreeAsStated(n, p) ==
    /\ NodeAsStated(n, p)
    /\ \A i \in 1..Len(n.children) :
           /\ "name" \in n.children[i].keys
           /\ TreeAsStated(n.children[i], Append(p, n.children[i].name))

\* the last call produced a JSON tree (as the document, or embedded in the HTML page)
JsonRendered == Rendered /\ Doc.format \in {"json", "html"}

\* C18 (as stated): every node of the JSON output, at every depth and under every
\* configuration, has a "name" and a "type" that is "directory" or "file"; a directory
\* node has "children" and no "size"; a file node has no "children" and has "size"
\* only when show_size is set and the stat succeeded; "error" appears only on
\* directory nodes whose listing failed.
C18_EveryJsonNodeHasTheSchema == JsonRendered => TreeAsStated(Doc.tree, <<>>)

\* the same with max_depth unset
C18_SchemaWhenUnbounded ==
    JsonRendered /\ config.max_depth = None => TreeAsStated(Doc.tree, <<>>)

(***************************************************************************)
(* Claims about the agreement of the renderers                              *)
(***************************************************************************)
\* the nodes of text lines in order: depth and name (a text line shows no kind)
TextNodes(lines) ==
    [i \in 1..Len(lines) |-> [depth |-> Len(lines[i].prefix) + 1, name |-> lines[i].name]]

\* the nodes of Markdown lines in order: depth, name and kind (a directory is bold)
MarkdownNodes(lines) ==
    [i \in 1..Len(lines) |->
        [depth |-> (lines[i].indent \div 2) + 1, name |-> lines[i].name,
         kind |-> IF lines[i].bold_dir THEN "directory" ELSE "file"]]

RECURSIVE JsonNodes(_, _)
\* the node objects below a JSON node in pre-order: depth, name and kind ("none" and
\* no name for an object without these keys)
JsonNodes(node, depth) ==
    LET One(c) == <<[depth |-> depth, name |-> c.name, kind |-> c.type]>>
                  \o JsonNodes(c, depth + 1)
        Flat[i \in 0..Len(node.children)] ==
            IF i = 0 THEN <<>> ELSE Flat[i - 1] \o One(node.children[i])
    IN  Flat[Len(node.children)]

WithoutKind(nodes) ==
    [i \in 1..Len(nodes) |-> [depth |-> nodes[i].depth, name |-> nodes[i].name]]

\* what the three traversals give for directory d, each from counters at zero
SameNodesAndStats(t, m, j) ==
    /\ TextNodes(t.lines) = WithoutKind(MarkdownNodes(m.lines))
    /\ MarkdownNodes(m.lines) = JsonNodes(j.tree, 1)
    /\ t.stats = m.stats /\ m.stats = j.stats

RenderersAgree(d) ==
    SameNodesAndStats(generate_tree_text(d, <<d.name>>, <<>>, 0, TreeStats, <<>>),
                      generate_tree_markdown(d, <<d.name>>, 0, TreeStats, <<>>),
                      generate_tree_json(d, <<d.name>>, 0, TreeStats, <<>>))

\* C19 (as stated): for the same tree and configuration the text, Markdown and JSON
\* renderers, each on a fresh instance, yield the same pre-order sequence of
\* (depth, name, kind) nodes and leave the same Stats.
C19_RenderersYieldTheSameNodes == Rendered => RenderersAgree(Seen)

\* the same with max_depth unset
C19_SameNodesWhenUnbounded == Rendered /\ config.max_depth = None => RenderersAgree(Seen)

(***************************************************************************)
(* Claims about the data embedded in the HTML page                          *)
(***************************************************************************)
\* the serialized tree_data of the page, before anything is replaced in it
Serialized(doc) == json_dumps(doc.tree, doc.stats, 0)

\* the embedded text is the serialized data with every closing script tag escaped
EveryOccurrenceEscaped(script, data) ==
    /\ Cardinality(Occurrences(script, ESCAPED_CLOSE_SCRIPT))
           = Cardinality(Occurrences(data, CLOSE_SCRIPT))
    /\ Len(script) = Len(data) + Cardinality(Occurrences(data, CLOSE_SCRIPT))
    /\ \A i \in Occurrences(data, CLOSE_SCRIPT) :
           LET before == Cardinality({j \in Occurrences(data, CLOSE_SCRIPT) : j < i})
           IN  i + before \in Occurrences(script, ESCAPED_CLOSE_SCRIPT)

\* C20: the JSON payload embedded in the HTML page never contains "</script>",
\* whatever names and listing-failure messages the tree carries: every occurrence in
\* the serialized data is replaced by "<\/script>" before it is embedded.
C20_NoClosingScriptTagEmbedded ==
    Rendered /\ Doc.format = "html" =>
        /\ Occurrences(Doc.script, CLOSE_SCRIPT) = {}
        /\ EveryOccurrenceEscaped(Doc.script, Serialized(Doc))

\* C20 witness: a page whose data spells the closing tag twice, in the message of a
\* failed listing
C20_Witness ==
    /\ Rendered /\ Doc.format = "html"
    /\ Cardinality(Occurrences(Serialized(Doc), CLOSE_SCRIPT)) = 2
    /\ FailedListings # {}
    /\ Occurrences(Doc.script, CLOSE_SCRIPT) = {}

(***************************************************************************)
(* Claims about the depth bound, the text layout and the Markdown layout    *)
(***************************************************************************)
\* the surviving directories at the depth bound: entries of a directory that was
\* entered at depth max_depth, so that listing them would take depth max_depth + 1
BoundDirectories ==
    IF config.max_depth = None THEN {}
    ELSE { p \in Expected(Seen) : IsDirAt(p) /\ Len(p) = config.max_depth + 1 }

\* the surviving directories down to the depth bound
DirectoriesToBound ==
    { p \in Expected(Seen) : IsDirAt(p) /\ Len(p) <= config.max_depth + 1 }

\* the document shows p once, by name, as a directory without children
NamedChildless(doc, p) ==
    /\ Len(SelectSeq(DocPaths(doc), LAMBDA q : q = p)) = 1
    /\ Below(DocPaths(doc), p) = <<>>
    /\ doc.format \in {"json", "html"} =>
           /\ Cardinality(JsonNodesAt(doc.tree, p)) = 1
           /\ \A n \in JsonNodesAt(doc.tree, p) :
                  /\ {"name", "type", "children"} \subseteq n.keys
                  /\ n.name = Last(p)
                  /\ n.type = "directory"
                  /\ n.children = <<>>

\* the directories at the bound are not listed, are shown as named childless
\* directories and are counted once each
BoundDirectoriesShown ==
    /\ \A p \in BoundDirectories : ~WasListed(p) /\ NamedChildless(Doc, p)
    /\ config.max_depth # None =>
           stats.total_dirs - result.before.total_dirs = Cardinality(DirectoriesToBound)

\* C21 (as stated): a surviving directory at the depth bound is not descended into
\* and appears, in every format, as a named childless directory node (in JSON with
\* its name, type "directory" and an empty children list), counted once in
\* Stats.total_dirs.
C21_BoundDirectoryNamedChildless == Rendered => BoundDirectoriesShown

\* what holds of the code: the same in the text and Markdown formats
C21_BoundDirectoryInTextAndMarkdown ==
    Rendered /\ Doc.format \in {"text", "markdown"} => BoundDirectoriesShown

\* the entries of the directory holding p that survive the filter
SurvivingSiblings(p) ==
    { q \in AllPaths(Seen) :
        Len(q) = Len(p) /\ Front(q) = Front(p) /\ keeps(NodeAt(Seen, q)) }

\* the entry shown at position i is the last of the surviving entries of its directory
LastOfSiblings(paths, i) ==
    \A q \in SurvivingSiblings(paths[i]) : \E j \in 1..i : paths[j] = q

\* the position at which path p is shown
ShownAt(paths, p) == CHOOSE j \in 1..Len(paths) : paths[j] = p

\* for the line at position i, whether each ancestor below the root, from the
\* top-level one down to the parent, is the last of its siblings
AncestorsLast(paths, i) ==
    [k \in 1..(Len(paths[i]) - 1) |->
        LastOfSiblings(paths, ShownAt(paths, SubSeq(paths[i], 1, k)))]

\* the characters of a prefix
PrefixText(line) == Join(line.prefix, <<>>)

\* the segments as stated: four characters each, a vertical bar (U+2502) and three
\* spaces, or four spaces
VERTICAL_BAR == "U+2502"

StatedSegment(last) ==
    IF last THEN <<" ", " ", " ", " ">> ELSE <<VERTICAL_BAR, " ", " ", " ">>

\* the connector of every line tells whether its entry is the last of its siblings,
\* and the segments of its prefix are given by segment for its ancestors in turn
TextLayout(doc, paths, last_segment, other_segment) ==
    \A i \in 1..Len(doc.lines) :
        /\ doc.lines[i].connector = (IF LastOfSiblings(paths, i) THEN ELBOW ELSE TEE)
        /\ doc.lines[i].name = Last(paths[i])
        /\ PrefixText(doc.lines[i])
               = Join([k \in 1..(Len(paths[i]) - 1) |->
                          IF AncestorsLast(paths, i)[k] THEN last_segment
                          ELSE other_segment],
                      <<>>)

\* C22 (as stated): every text line is prefix, connector, name and suffix; the
\* connector is the corner glyph exactly for the last surviving sibling; the prefix
\* is one 4-character segment per ancestor below the root, a vertical bar and three
\* spaces for an ancestor that is not the last of its siblings, four spaces for one
\* that is.
C22_PrefixOfFourCharacterSegments ==
    Rendered /\ Doc.format = "text" =>
        TextLayout(Doc, DocPaths(Doc), StatedSegment(TRUE), StatedSegment(FALSE))

\* what holds of the code: the same with the segments SPACE (four characters) and
\* PIPE_SPACE (six characters)
C22_PrefixOfTheCodesSegments ==
    Rendered /\ Doc.format = "text" => TextLayout(Doc, DocPaths(Doc), SPACE, PIPE_SPACE)

\* the lines nest: the first is not indented, the indents are even, and a line is
\* indented two more than the line before it only when that line is a directory
MarkdownNests(lines) ==
    /\ lines # <<>> => lines[1].indent = 0
    /\ \A i \in 2..Len(lines) :
           /\ lines[i].indent % 2 = 0
           /\ lines[i].indent <= lines[i - 1].indent + 2
           /\ lines[i].indent = lines[i - 1].indent + 2 => lines[i - 1].bold_dir

\* the entries a render must show: every name on the path survives the filter, every
\* directory above can be listed, and the directory that holds the entry is within
\* the bound
EntriesWithinBound ==
    { p \in Expected(Seen) :
        /\ \A k \in 1..Len(p) : keeps(NodeAt(Seen, SubSeq(p, 1, k)))
        /\ config.max_depth = None \/ Len(p) <= config.max_depth + 1 }

\* the characters of the tree connectors, as the glyphs and as the code holds them
ConnectorCharacters ==
    ((Range(TEE) \cup Range(ELBOW) \cup Range(PIPE_SPACE)) \ {" "})
    \cup {"U+2502", "U+251C", "U+2514", "U+2500"}

\* the text of a Markdown line around its annotation: the indent, the bullet, and
\* the name, set in bold with a slash for a directory
MarkdownText(line) ==
    [k \in 1..line.indent |-> " "] \o <<"-", " ">>
    \o (IF line.bold_dir THEN <<"*", "*">> \o line.name \o <<"/", "*", "*">>
        ELSE line.name)

\* path q lies below path p
IsUnder(q, p) == Len(q) > Len(p) /\ SubSeq(q, 1, Len(p)) = p

\* the lines below the directory shown at position i come immediately after it
SubtreeFollows(paths, i) ==
    \A j \in (i + 1)..Len(paths) :
        IsUnder(paths[j], paths[i]) => \A k \in (i + 1)..j : IsUnder(paths[k], paths[i])

MarkdownLayout(doc, paths) ==
    /\ Range(paths) = EntriesWithinBound
    /\ Len(doc.lines) = Cardinality(EntriesWithinBound)
    /\ \A i \in 1..Len(doc.lines) :
           /\ doc.lines[i].indent = 2 * (Len(paths[i]) - 1)
           /\ doc.lines[i].name = Last(paths[i])
           /\ doc.lines[i].bold_dir = IsDirAt(paths[i])
           /\ doc.lines[i].info = (IF IsDirAt(paths[i]) THEN <<>>
                                   ELSE get_entry_info(NodeAt(Seen, paths[i])))
           /\ IsDirAt(paths[i]) => SubtreeFollows(paths, i)
           /\ Range(MarkdownText(doc.lines[i])) \cap ConnectorCharacters = {}

\* C23: a Markdown line is indented two spaces per depth level, so a child's line is
\* indented two more than its directory's; a directory is '- **name/**' followed at
\* once by the lines of its subtree, a file '- name' with its optional suffix; no
\* connector glyph appears.
C23_MarkdownIndentAndBullets ==
    Rendered /\ Doc.format = "markdown" =>
        MarkdownNests(Doc.lines) /\ MarkdownLayout(Doc, DocPaths(Doc))

\* C23 witness: a Markdown render with sizes in which the file d, three directories
\* down, is indented six spaces and annotated, below the bold line of c
C23_Witness ==
    /\ Rendered /\ Doc.format = "markdown" /\ config.show_size
    /\ \E i \in 2..Len(Doc.lines) :
           /\ Doc.lines[i].name = <<"d">> /\ Doc.lines[i].indent = 6
           /\ Doc.lines[i].info # <<>>
           /\ Doc.lines[i - 1].name = <<"c">> /\ Doc.lines[i - 1].bold_dir
           /\ Doc.lines[i - 1].indent = 4

(***************************************************************************)
(* Claims about the order of the children                                   *)
(***************************************************************************)
\* the entries at positions i < j are siblings of one kind whose names are equal when
\* case is ignored
CaseTie(paths, i, j) ==
    /\ i < j /\ Siblings(paths, i, j)
    /\ IsDirAt(paths[i]) = IsDirAt(paths[j])
    /\ lower(Last(paths[i])) = lower(Last(paths[j]))

\* entries that tie are shown in the order of their original names
TiesByOriginalName(paths) ==
    \A i, j \in 1..Len(paths) :
        CaseTie(paths, i, j) => StrLess(Last(paths[i]), Last(paths[j]))

\* the last call gives the same document when every directory is enumerated in the
\* opposite order
SameWhenEnumeratedBackwards(o, alt) ==
    alt.exc = "none" /\ Content(alt.doc) = Content(o.doc)

\* C24 (as stated): the rendered order of a directory's children does not depend on
\* the order in which the operating system enumerates them, and two entries of one
\* kind whose names are equal ignoring case are ordered by their original names.
C24_OrderIndependentOfEnumeration ==
    Rendered =>
        /\ SameWhenEnumeratedBackwards(Outcome, Replay(Reversed(result.world_before)))
        /\ TiesByOriginalName(DocPaths(Doc))

\* what holds of the code: the same entries are shown whatever the enumeration order,
\* directories first and the lower-cased names non-decreasing; entries that tie keep
\* the order in which iterdir() gave them
C24_OrderUpToTies ==
    Rendered =>
        /\ Range(DocPaths(Replay(Reversed(result.world_before)).doc))
               = Range(DocPaths(Doc))
        /\ OrderedByKey(DocPaths(Doc))

(***************************************************************************)
(* Claims about the statistics                                              *)
(***************************************************************************)
\* the entries met in the directories the last call listed that the filter excluded
ExcludedEntries ==
    { p \in AllPaths(Seen) : ListedOkAt(Front(p)) /\ ~keeps(NodeAt(Seen, p)) }

\* C26 (as stated): after a render on a fresh instance Stats.skipped is the number of
\* entries met in listed directories that the filter excluded (an ignored name, or a
\* file under dirs_only).
C26_SkippedCountsExcludedEntries ==
    Rendered /\ result.before = TreeStats =>
        stats.skipped = Cardinality(ExcludedEntries)

\* what holds of the code: no render ever changes Stats.skipped
C26_SkippedStaysZero == stats.skipped = 0

\* the counters a returned Stats value shows now: the returned object is the
\* instance's own TreeStats object, whose counters are the current ones
CountersOf(returned) ==
    IF returned.object = "self.stats" THEN stats ELSE returned.at_return

\* the calls of generate_to_file that returned a Stats value
ReturnedStats == {i \in 1..Len(history) : history[i].returned.object # "none"}

\* C27 (as stated): the Stats value generate_to_file returns is a snapshot of the
\* counters at the end of that call; a later render on the same instance does not
\* change the counters of a Stats value an earlier call returned.
C27_ReturnedStatsIsSnapshot ==
    \A i \in ReturnedStats :
        CountersOf(history[i].returned) = history[i].returned.at_return

\* what holds of the code: every Stats value returned so far is the instance's one
\* TreeStats object, so all of them show the counters of the latest call
C27_ReturnedStatsIsLive ==
    \A i \in ReturnedStats :
        /\ history[i].returned.object = "self.stats"
        /\ CountersOf(history[i].returned) = stats
        /\ i = Len(history) => history[i].returned.at_return = stats

\* the 'stats' object of the page agrees with the tree embedded next to it
PayloadStatsAgree(doc) ==
    /\ doc.stats.keys = {"dirs", "files", "root"}
    /\ doc.stats.dirs = CountType(doc.tree, "directory")
    /\ doc.stats.files = CountType(doc.tree, "file")
    /\ doc.stats.root = Seen.name

\* C28 (as stated): for every generate_to_file call with the HTML format, the second
\* and later calls on one instance included, stats.dirs and stats.files of the
\* embedded payload are the numbers of directory nodes and of file nodes below the
\* root of the tree embedded in the same document, and stats.root is the root's name.
C28_PayloadStatsMatchEmbeddedTree ==
    Rendered /\ Doc.format = "html" => PayloadStatsAgree(Doc)

\* what holds of the code: the payload carries the instance's running totals, which
\* agree with the embedded tree on the first call of an instance without a depth bound
C28_PayloadStatsAreRunningTotals ==
    Rendered /\ Doc.format = "html" =>
        /\ Doc.stats.dirs = stats.total_dirs
        /\ Doc.stats.files = stats.total_files
        /\ Doc.stats.root = Seen.name
        /\ result.before = TreeStats /\ config.max_depth = None => PayloadStatsAgree(Doc)

\* the statement of C28 for instances without a depth bound: refuted by the second
\* call alone
C28_PayloadStatsMatchWithoutBound ==
    Rendered /\ Doc.format = "html" /\ config.max_depth = None => PayloadStatsAgree(Doc)

(***************************************************************************)
(* Claims about the output file                                             *)
(***************************************************************************)
\* the last call wrote its output into the rendered root, under a name that is not
\* ignored and that no entry of the root had before the call
WroteNewFileIntoRoot ==
    /\ Rendered /\ result.call = "generate_to_file"
    /\ Outcome.out.parent = "root"
    /\ ~should_ignore(Outcome.out.name)
    /\ \A e \in Range(PathOf(result.world_before, result.directory).entries) :
           e.name # Outcome.out.name

\* the output file is shown as an entry of the root
OutputShown == <<Outcome.out.name>> \in Range(DocPaths(Doc))

\* the files the last call added to Stats.total_files
FilesCounted == stats.total_files - result.before.total_files

\* the files that were in the root before the call and are shown
OtherFilesShown == {p \in Range(DocPaths(Doc)) : ~IsDirAt(p) /\ p # <<Outcome.out.name>>}

\* C29 (as stated): the tree generate_to_file writes reflects the directory as it was
\* before the call, for every format alike: an output file that lies in the rendered
\* root, has a name that is not ignored and did not exist before is never a node of
\* its own output and is not counted in Stats.total_files.
C29_OutputFileNotInItsOwnTree ==
    WroteNewFileIntoRoot =>
        /\ ~OutputShown
        /\ FilesCounted = Cardinality(OtherFilesShown)

\* what holds of the code: only the HTML format renders the directory before it opens
\* the output file; text, Markdown and JSON open the file first and then list it and
\* count it like any other file (unless dirs_only filters the files out)
C29_OutputFileListedUnlessHtml ==
    WroteNewFileIntoRoot =>
        /\ OutputShown <=> (Doc.format # "html" /\ ~config.dirs_only)
        /\ FilesCounted = Cardinality(OtherFilesShown) + (IF OutputShown THEN 1 ELSE 0)

(***************************************************************************)
(* Claims about one traversal                                               *)
(***************************************************************************)
\* the directories a traversal has to list: the root and every directory it shows
\* that does not lie at the depth bound
DirectoriesToList ==
    { p \in EntriesWithinBound \cup {<<>>} :
        /\ IsDirAt(p)
        /\ config.max_depth = None \/ Len(p) <= config.max_depth }

\* no path was handed to iterdir() twice
ListedOnce == \A i, j \in 1..Len(listed) : listed[i] = listed[j] => i = j

\* C30: within one render call each directory is listed at most once and each
\* surviving entry is counted exactly once: on a fresh instance the lines
\* generate_tree_text returns are Stats.total_dirs + Stats.total_files many, and
\* Stats.errors is the number of directories whose listing failed.
C30_OneLinePerCountedEntry ==
    Rendered /\ Doc.format = "text" /\ result.before = TreeStats =>
        /\ ListedOnce
        /\ {Tail(listed[i]) : i \in 1..Len(listed)} = DirectoriesToList
        /\ Len(Doc.lines) = stats.total_dirs + stats.total_files
        /\ stats.total_dirs = Cardinality({p \in EntriesWithinBound : IsDirAt(p)})
        /\ stats.total_files = Cardinality({p \in EntriesWithinBound : ~IsDirAt(p)})
        /\ stats.errors
               = Cardinality({p \in DirectoriesToList : ~NodeAt(Seen, p).list_ok})

\* C30 witness: a text render without a depth bound on a fresh instance in which one
\* listing failed and directories and files were counted at several levels
C30_Witness ==
    /\ Rendered /\ Doc.format = "text" /\ result.before = TreeStats
    /\ config.max_depth = None
    /\ stats.errors = 1
    /\ stats.total_dirs >= 3 /\ stats.total_files >= 3
    /\ Len(Doc.lines) = stats.total_dirs + stats.total_files
    /\ Len(listed) >= 3

====
